---- MODULE Spec2Model ----
(***************************************************************************)
(* A model of pyact: the actor runtime of src/pyact/actor.py and the shape *)
(* matcher of src/pyact/shape.py.                                          *)
(*                                                                         *)
(* Actors are greenlets of one cooperative scheduler (gevent): exactly one *)
(* greenlet runs at a time and control moves only at suspension points.    *)
(* An action of this model is therefore one run of a handler between two   *)
(* suspension points.                                                      *)
(***************************************************************************)
EXTENDS Integers, Sequences, FiniteSets, TLC

(***************************************************************************)
(* Bounds of the model.                                                    *)
(***************************************************************************)
MaxActors == 2
MaxCasts == 3
MaxOps == 1
MaxTargets == 3
MaxReceives == 2
MaxCalls == 2
MaxLen == 2

(***************************************************************************)
(* Values.  A Python value is a record [t, v]: its type and its content.   *)
(* str and unicode are two types (Python 2): the literals of the actors'   *)
(* code are str, the strings json.loads returns are unicode.  The keys of  *)
(* a dict are kept as plain strings: a str and a unicode of the same       *)
(* characters hash and compare equal.  A set is kept as the sequence of    *)
(* its elements, whose order means nothing.  A shape is a value, a type    *)
(* token ("type") or a container of shapes.  An Address is the actor       *)
(* object it refers to (a slot): Actor.address is created once per actor   *)
(* (368).                                                                  *)
(***************************************************************************)
VNull == [t |-> "null", v |-> 0]
VBool(b) == [t |-> "bool", v |-> b]
VInt(n) == [t |-> "int", v |-> n]
VStr(s) == [t |-> "str", v |-> s]
VUnicode(s) == [t |-> "unicode", v |-> s]
VAddr(a) == [t |-> "addr", v |-> a]
VList(s) == [t |-> "list", v |-> s]
VTuple(s) == [t |-> "tuple", v |-> s]
VSet(s) == [t |-> "set", v |-> s]
VDict(f) == [t |-> "dict", v |-> f]
TType(n) == [t |-> "type", v |-> n]

Dict1(k1, v1) == VDict([k \in {k1} |-> v1])
Dict2(k1, v1, k2, v2) == VDict([k \in {k1, k2} |-> IF k = k1 THEN v1 ELSE v2])

\* isinstance(thing, token) for the built-in types; bool is a subclass of int
IsInstance(thing, token) ==
    \/ token = "object"
    \/ token = thing.t
    \/ token = "int" /\ thing.t = "bool"
    \/ token = "NoneType" /\ thing.t = "null"
    \/ token = "Address" /\ thing.t = "addr"
    \/ token = "Binary" /\ thing.t = "binary"

CONTAINER_TYPES == {"dict", "list", "tuple", "set"}

\* The shape functions give the set of the outcomes a call can have: "ok"
\* when it can return, and the exceptions it can raise.  The code visits the
\* keys of a dict and the elements of a set in the iteration order of the
\* container, which the program does not fix: where two keys fail, either
\* failure can be the one raised, and where a set shape has two elements,
\* either can be the subtype.  Each iteration is a choice of its own.
RECURSIVE is_shaped_exc(_, _)
RECURSIVE SeqShaped(_, _, _)
RECURSIVE TupleShaped(_, _, _)

\* every element of things[i..] against one subtype; the first failure is raised
SeqShaped(things, subtype, i) ==
    IF i > Len(things) THEN {"ok"}
    ELSE LET r == is_shaped_exc(things[i], subtype)
         IN  (r \ {"ok"}) \cup
             (IF "ok" \in r THEN SeqShaped(things, subtype, i + 1) ELSE {})

\* positional pairs of a tuple
TupleShaped(things, shapes, i) ==
    IF i > Len(shapes) THEN {"ok"}
    ELSE LET r == is_shaped_exc(things[i], shapes[i])
         IN  (r \ {"ok"}) \cup
             (IF "ok" \in r THEN TupleShaped(things, shapes, i + 1) ELSE {})

\* a loop over the parts of a container in an order the program does not
\* fix, r[k] the outcomes of the check of part k: the loop ends at the first
\* part it visits that fails, which can be any part that can fail, and
\* returns when every part passed
AnyOrderShaped(r) ==
    UNION {r[k] \ {"ok"} : k \in DOMAIN r}
        \cup (IF \A k \in DOMAIN r : "ok" \in r[k] THEN {"ok"} ELSE {})

\* what the key name of a dict shape raises when the loop reaches it
KeyShaped(thing, shape, name) ==
    IF name \notin DOMAIN thing THEN {"KeyMismatch"}
    ELSE is_shaped_exc(thing[name], shape[name])

\* for name in shape
DictShaped(thing, shape) ==
    AnyOrderShaped([name \in DOMAIN shape |-> KeyShaped(thing, shape, name)])

\* the elements of a list in their order, those of a set in any order,
\* against the subtype: the first element of a list shape, the element a set
\* shape iterates first, which can be any of its elements; subtype stays
\* unbound when the shape is empty
ListShaped(thing, shape) ==
    IF Len(thing.v) = 0 THEN {"ok"}
    ELSE IF Len(shape.v) = 0 THEN {"UnboundLocalError"}
    ELSE LET subtypes == IF shape.t = "list" THEN {shape.v[1]}
                         ELSE {shape.v[i] : i \in 1..Len(shape.v)}
             items(subtype) ==
                 IF thing.t = "list" THEN SeqShaped(thing.v, subtype, 1)
                 ELSE AnyOrderShaped([i \in 1..Len(thing.v) |->
                                         is_shaped_exc(thing.v[i], subtype)])
         IN  UNION {items(subtype) : subtype \in subtypes}

\* shape.is_shaped_exc: "ok" when it returns, and the exceptions it can
\* raise.  A str is converted to unicode, as the thing (64-65) and as the
\* shape (68-69), and a shape that is the type str is replaced by the type
\* unicode (71-72); a type given as the thing is left as it is.
is_shaped_exc(thing, shape) ==
    LET th == IF thing.t = "str" THEN VUnicode(thing.v) ELSE thing
        sh == IF shape.t = "str" THEN VUnicode(shape.v)
              ELSE IF shape = TType("str") THEN TType("unicode") ELSE shape
    IN  IF sh.t \in CONTAINER_TYPES
        THEN CASE sh.t = "dict" ->
                    IF th.t # "dict" THEN {"TypeMismatch"}
                    ELSE DictShaped(th.v, sh.v)
               [] sh.t \in {"list", "set"} ->
                    IF th.t \notin {"list", "set"} THEN {"TypeMismatch"}
                    ELSE ListShaped(th, sh)
               [] sh.t = "tuple" ->
                    IF th.t # "tuple" THEN {"TypeMismatch"}
                    ELSE IF Len(th.v) # Len(sh.v) THEN {"SizeMismatch"}
                    ELSE TupleShaped(th.v, sh.v, 1)
        ELSE IF sh.t = th.t
        THEN IF th.v = sh.v THEN {"ok"} ELSE {"ShapeMismatch"}
        ELSE IF sh.t = "type" /\ IsInstance(th, sh.v) THEN {"ok"}
        ELSE {"TypeMismatch"}

ShapeMismatchKinds == {"ShapeMismatch", "TypeMismatch", "KeyMismatch", "SizeMismatch"}

\* shape.is_shaped: the outcomes a call can have: "True" where is_shaped_exc
\* returns, "False" where it raises a ShapeMismatch, which is caught, and
\* any other exception it raises, which leaves is_shaped
is_shaped(thing, shape) ==
    {IF e = "ok" THEN "True" ELSE IF e \in ShapeMismatchKinds THEN "False" ELSE e :
        e \in is_shaped_exc(thing, shape)}

(***************************************************************************)
(* State.                                                                  *)
(***************************************************************************)
VARIABLES
    status,      \* per actor: where its greenlet is
    actor_id,    \* Actor._actor_id
    all_actors,  \* Actor.all_actors: actor_id -> actor, 0 when the key is absent
    mailbox,     \* Actor._mailbox
    wevent,      \* Actor._wevent: "None", or an Event that is "clear" or "set"
    alinks,      \* Actor._alinks
    exit_links,  \* Actor._exit_links
    exit_event,  \* Actor._exit_event, an AsyncResult
    killreq,     \* a throw of Killed that gevent.kill scheduled on the hub
    rcv,         \* the receive an actor is blocked in, and who called it
    waiton,      \* the actor whose _exit_event.get() an actor is blocked in
    ret,         \* what the last operation of an actor returned or raised
    mtag,        \* history: for each mailbox entry, its sender and cast number
    nsent,       \* history: per actor, the number of casts it has made
    count,       \* the casts, calls and other operations made so far (bounds)
    killed,      \* history: the actors Killed was thrown into before they ended
    leaked,      \* per actor: the Timeouts it started that are still pending
                 \* though the receive or call that started them has ended
    gather,      \* the local variables of Gather.main
    server,      \* the local variables of Server.main, and what it has done
    frame        \* a call of the shape functions: its arguments and results

vars == <<status, actor_id, all_actors, mailbox, wevent, alinks, exit_links,
          exit_event, killreq, rcv, waiton, ret, mtag, nsent, count, killed, leaked,
          gather, server, frame>>

Actors == DOMAIN status

\* uuid.uuid1() of the n-th actor, as Actor.__init__ draws it
Uuid(n) == "u" \o ToString(n)

\* the greenlet has finished: Greenlet.dead, which Address._actor reads
Dead(a) == status[a] = "dead"

Created(a) == status[a] # "none"

\* an actor's greenlet is the one running
Busy == \E a \in Actors : status[a] \in {"running", "raising"}

PyNone == VNull

ExitUnset == [st |-> "unset", v |-> PyNone]
NoRcv == [patterns |-> <<>>, timeout |-> "None", timer |-> "none",
          kind |-> "none", id |-> "", target |-> 0, method |-> "",
          blocked |-> FALSE]
\* the result of an operation: what it returned (v) or raised (exc); for a
\* receive also the pattern it returned, its arguments, the mailbox before
\* and after the scan that returned, the cast records of the entries before
\* (tags), the index the scan deleted (i) and whether receive had waited
\* before that scan (blocked); for a wait the actor waited on; for a call
\* its message_id (id) and the same record of the scan that ended it;
\* for the end of an actor what its code returned or raised (v) and the
\* exception that left _run (exc)
Ret(op, exc, v) == [op |-> op, exc |-> exc, v |-> v, pat |-> PyNone,
                    patterns |-> <<>>, timeout |-> "", before |-> <<>>,
                    after |-> <<>>, tags |-> <<>>, i |-> 0, blocked |-> FALSE,
                    target |-> 0, id |-> ""]
NoRet == Ret("none", "none", PyNone)
\* the exceptions of the Timeouts the program starts: receive's
\* gevent.Timeout(timeout, ReceiveTimeout) and call's gevent.Timeout(timeout)
TimerKinds == {"ReceiveTimeout", "Timeout"}
NoTimers == [e \in TimerKinds |-> 0]
NoGather == [pc |-> "none"]
\* no actor is a Server
NoServer == [g |-> 0, pc |-> "none", starts |-> 0, stops |-> 0, message |-> PyNone,
             log |-> <<>>]
\* a result that is not there yet
Unset == [t |-> "unset", v |-> 0]
\* no shape function is called
NoFrame == [thing |-> PyNone, shape |-> PyNone, is_shaped |-> "unset",
            is_shaped_exc |-> "unset", calculate_shape |-> Unset,
            is_shaped_own |-> "unset"]

(***************************************************************************)
(* The codec: json.dumps(message, default=handle_custom), then             *)
(* json.loads(text, object_hook=generate_custom).                          *)
(***************************************************************************)
Err(kind) == [t |-> "error", v |-> kind]
IsErr(x) == x.t = "error"

\* Binary(value): value is a str, kept as the sequence of its bytes
VBinary(bytes) == [t |-> "binary", v |-> bytes]

\* The functions of the codec give the set of the outcomes a call can have:
\* one value, or the exceptions it can raise.  r maps the parts of a
\* container to their outcomes.
The(S) == CHOOSE x \in S : TRUE
Least(S) == CHOOSE i \in S : \A j \in S : i <= j
Failing(r) == {k \in DOMAIN r : \E x \in r[k] : IsErr(x)}
Values(r) == [k \in DOMAIN r |-> The(r[k])]
\* the parts are visited in their order: the first failure is raised
InOrderErrs(r) == r[Least(Failing(r))]
\* the parts are visited in the iteration order of a dict, which the program
\* does not fix: the failure of any failing part can be the one raised
AnyOrderErrs(r) == UNION {r[k] : k \in Failing(r)}

\* the characters with the codes 32 to 95 and 97 to 126 (a string of this
\* module cannot hold the grave accent, code 96), and the base64 alphabet
ASCII_32_95 == " !\"#$%&'()*+,-./0123456789:;<=>?@ABCDEFGHIJKLMNOPQRSTUVWXYZ[\\]^_"
ASCII_97_126 == "abcdefghijklmnopqrstuvwxyz{|}~"
B64 == "ABCDEFGHIJKLMNOPQRSTUVWXYZabcdefghijklmnopqrstuvwxyz0123456789+/"
CharAt(s, i) == SubSeq(s, i, i)
\* the position of the character c in s, 0 when it is not in s
IndexIn(c, s) ==
    IF \E i \in 1..Len(s) : CharAt(s, i) = c
    THEN CHOOSE i \in 1..Len(s) : CharAt(s, i) = c
    ELSE 0
\* ord and chr, and a str as its bytes and back
Ord(c) ==
    IF IndexIn(c, ASCII_32_95) # 0 THEN IndexIn(c, ASCII_32_95) + 31
    ELSE IndexIn(c, ASCII_97_126) + 96
Chr(n) == IF n < 96 THEN CharAt(ASCII_32_95, n - 31) ELSE CharAt(ASCII_97_126, n - 96)
Bytes(s) == [i \in 1..Len(s) |-> Ord(CharAt(s, i))]
Printable(bytes) == \A i \in 1..Len(bytes) : bytes[i] \in (32..126) \ {96}
RECURSIVE StrOf(_)
StrOf(bytes) == IF bytes = <<>> THEN "" ELSE Chr(Head(bytes)) \o StrOf(Tail(bytes))

RECURSIVE b64encode(_)
\* base64.b64encode: three bytes give four characters, the last group is
\* padded with "="
b64encode(bytes) ==
    LET n == Len(bytes)
        b(i) == IF i <= n THEN bytes[i] ELSE 0
        c(v) == CharAt(B64, v + 1)
        c1 == c(b(1) \div 4)
        c2 == c((b(1) % 4) * 16 + b(2) \div 16)
        c3 == c((b(2) % 16) * 4 + b(3) \div 64)
        c4 == c(b(3) % 64)
    IN  CASE n = 0 -> ""
          [] n = 1 -> c1 \o c2 \o "=="
          [] n = 2 -> c1 \o c2 \o c3 \o "="
          [] OTHER -> c1 \o c2 \o c3 \o c4 \o b64encode(SubSeq(bytes, 4, n))

\* binascii_find_valid(s, 1) called at a pad: the next character after
\* position i that is of the alphabet or a pad, "" when there is none
RECURSIVE NextValid(_, _)
NextValid(s, i) ==
    IF i >= Len(s) THEN ""
    ELSE LET c == CharAt(s, i + 1)
         IN  IF c = "=" \/ IndexIn(c, B64) # 0 THEN c ELSE NextValid(s, i + 1)

RECURSIVE a2b_base64(_, _, _, _, _, _)
\* binascii.a2b_base64 from the i-th character on: characters outside the
\* alphabet are skipped, as is a pad that is not in place; a pad in place
\* ends the input; bits left over are "Incorrect padding", which b64decode
\* raises as TypeError
a2b_base64(s, i, quad_pos, leftchar, leftbits, out) ==
    IF i > Len(s)
    THEN IF leftbits # 0 THEN Err("TypeError") ELSE VBinary(out)
    ELSE LET c == CharAt(s, i)
         IN  IF c = "="
             THEN IF quad_pos < 2 \/ (quad_pos = 2 /\ NextValid(s, i) # "=")
                  THEN a2b_base64(s, i + 1, quad_pos, leftchar, leftbits, out)
                  ELSE VBinary(out)
             ELSE IF IndexIn(c, B64) = 0
             THEN a2b_base64(s, i + 1, quad_pos, leftchar, leftbits, out)
             ELSE LET lc == leftchar * 64 + IndexIn(c, B64) - 1
                      lb == leftbits + 6
                  IN  IF lb >= 8
                      THEN a2b_base64(s, i + 1, (quad_pos + 1) % 4,
                                      lc % (2 ^ (lb - 8)), lb - 8,
                                      Append(out, (lc \div (2 ^ (lb - 8))) % 256))
                      ELSE a2b_base64(s, i + 1, (quad_pos + 1) % 4, lc, lb, out)

\* base64.b64decode of a decoded JSON value: a string is decoded, anything
\* else is no buffer
b64decode(x) ==
    IF x.t \in {"str", "unicode"} THEN a2b_base64(x.v, 1, 0, 0, 0, <<>>)
    ELSE Err("TypeError")

RECURSIVE to_json(_)
\* json.dumps(message, default=handle_custom): the JSON value of a message.
\* An Address becomes {"_pyact_address": actor_id}; reading actor_id of a
\* dead actor raises DeadActor.  A Binary becomes {"_pyact_binary": base64}.
\* A tuple becomes a JSON array.
to_json(m) ==
    CASE m.t = "addr" ->
            IF Dead(m.v) THEN {Err("DeadActor")}
            ELSE {Dict1("_pyact_address", VStr(actor_id[m.v]))}
      [] m.t = "binary" -> {Dict1("_pyact_binary", VStr(b64encode(m.v)))}
      [] m.t \in {"list", "tuple"} ->
            LET r == [i \in 1..Len(m.v) |-> to_json(m.v[i])]
            IN  IF Failing(r) = {} THEN {VList(Values(r))} ELSE InOrderErrs(r)
      [] m.t = "dict" ->
            LET r == [k \in DOMAIN m.v |-> to_json(m.v[k])]
            IN  IF Failing(r) = {} THEN {VDict(Values(r))} ELSE AnyOrderErrs(r)
      [] m.t \in {"set", "type"} -> {Err("TypeError")}
      [] OTHER -> {m}

\* Address.from_json of an object whose only key is _pyact_address:
\* Actor.all_actors[id].address.  A list or a dict is unhashable; a Binary
\* hashes and compares as its value, a str.
AddressFromJson(id) ==
    LET key == CASE id.t \in {"str", "unicode"} -> id.v
                 [] id.t = "binary" /\ Printable(id.v) -> StrOf(id.v)
                 [] OTHER -> ""
    IN  IF id.t \in {"list", "dict"} THEN Err("TypeError")
        ELSE IF id.t \in {"str", "unicode", "binary"} /\ key \in DOMAIN all_actors
                /\ all_actors[key] # 0
        THEN VAddr(all_actors[key])
        ELSE Err("KeyError")

\* generate_custom: Address.from_json, then Binary.from_json, on every
\* decoded JSON object
generate_custom(obj) ==
    IF DOMAIN obj.v = {"_pyact_address"}
    THEN AddressFromJson(obj.v["_pyact_address"])
    ELSE IF DOMAIN obj.v = {"_pyact_binary"}
    THEN b64decode(obj.v["_pyact_binary"])
    ELSE obj

RECURSIVE from_json(_)
\* json.loads with the object hook, applied to the inner objects first, in
\* the order of the text, which for the members of an object is the order
\* json.dumps visited them in; every string it returns is unicode
from_json(j) ==
    CASE j.t = "list" ->
            LET r == [i \in 1..Len(j.v) |-> from_json(j.v[i])]
            IN  IF Failing(r) = {} THEN {VList(Values(r))} ELSE InOrderErrs(r)
      [] j.t = "dict" ->
            LET r == [k \in DOMAIN j.v |-> from_json(j.v[k])]
            IN  IF Failing(r) = {} THEN {generate_custom(VDict(Values(r)))}
                ELSE AnyOrderErrs(r)
      [] j.t \in {"str", "unicode"} -> {VUnicode(j.v)}
      [] OTHER -> {j}

\* what a cast message is when it reaches the mailbox, or what the cast raises
Transport(m) ==
    UNION {IF IsErr(j) THEN {j} ELSE from_json(j) : j \in to_json(m)}

\* type(what) of a value that is no dict, list or tuple
TypeOf(what) ==
    TType(CASE what.t = "null" -> "NoneType"
            [] what.t = "addr" -> "Address"
            [] what.t = "binary" -> "Binary"
            [] OTHER -> what.t)

RECURSIVE calculate_shape(_)
\* shape.calculate_shape: the shape, or the exceptions it can raise
calculate_shape(what) ==
    CASE what.t = "dict" ->
            LET r == [k \in DOMAIN what.v |-> calculate_shape(what.v[k])]
            IN  IF Failing(r) = {} THEN {VDict(Values(r))} ELSE AnyOrderErrs(r)
      [] what.t = "list" ->
            IF Len(what.v) = 0 THEN {Err("AmbiguousShape")}
            ELSE IF \E i \in 2..Len(what.v) : what.v[i].t # what.v[1].t
            THEN {Err("HeterogenousList")}
            ELSE LET c == calculate_shape(what.v[1])
                 IN  IF \E x \in c : IsErr(x) THEN c ELSE {VList(<<The(c)>>)}
      [] what.t = "tuple" ->
            LET r == [i \in 1..Len(what.v) |-> calculate_shape(what.v[i])]
            IN  IF Failing(r) = {} THEN {VTuple(Values(r))} ELSE InOrderErrs(r)
      [] OTHER -> {TypeOf(what)}

(***************************************************************************)
(* Cast.  W is the part of the state a cast writes: the mailboxes (mb),    *)
(* the wait events (we) and the history of the casts (tg, ns); with them   *)
(* it carries the pending Timeouts (lk), which a receive writes.           *)
(***************************************************************************)
World == [mb |-> mailbox, we |-> wevent, tg |-> mtag, ns |-> nsent, lk |-> leaked]

\* Actor._cast: append, and set the wait event if one is armed and clear
_cast(W, sender, target, decoded) ==
    [mb |-> [W.mb EXCEPT ![target] = Append(@, decoded)],
     we |-> [W.we EXCEPT ![target] = IF @ = "clear" THEN "set" ELSE @],
     tg |-> [W.tg EXCEPT ![target] =
                Append(@, [from |-> sender, n |-> W.ns[sender] + 1])],
     ns |-> [W.ns EXCEPT ![sender] = @ + 1],
     lk |-> W.lk]

\* Address.cast of a message that has no _as_json_obj attribute:
\* self._actor, json.dumps, then Actor._cast which decodes and appends
\* Result: the outcomes the cast can have, each the new state and the
\* exception raised, if any.
cast(W, sender, target, message) ==
    IF Dead(target) THEN {[W |-> W, exc |-> "DeadActor"]}
    ELSE {IF IsErr(d) THEN [W |-> W, exc |-> d.v]
          ELSE [W |-> _cast(W, sender, target, d), exc |-> "none"] :
             d \in Transport(message)}

RECURSIVE CastLinks(_, _, _, _, _)
\* for link in links: link.cast(message), from the i-th link on; the first
\* cast that raises ends the loop
CastLinks(W, self, links, i, message) ==
    IF i > Len(links) THEN {[W |-> W, exc |-> "none"]}
    ELSE UNION {IF r.exc # "none" THEN {r}
                ELSE CastLinks(r.W, self, links, i + 1, message) :
                   r \in cast(W, self, links[i], message)}

(***************************************************************************)
(* Selective receive.                                                      *)
(***************************************************************************)
RECURSIVE MatchFrom(_, _, _, _)
\* the loops of Actor._match_patterns from entry i and pattern j on:
\* the indices of the first match, i = 0 when no entry matches, or the
\* exception that left is_shaped; the set of the outcomes the loops can
\* have.  Where is_shaped can return True the loops end with this match,
\* where it can return False they go on, and where it can raise they are left.
MatchFrom(mb, patterns, i, j) ==
    IF i > Len(mb) THEN {[i |-> 0, j |-> 0, exc |-> "none"]}
    ELSE IF j > Len(patterns) THEN MatchFrom(mb, patterns, i + 1, 1)
    ELSE LET r == is_shaped(mb[i], patterns[j])
         IN  (IF "True" \in r THEN {[i |-> i, j |-> j, exc |-> "none"]} ELSE {})
             \cup {[i |-> 0, j |-> 0, exc |-> e] : e \in r \ {"True", "False"}}
             \cup (IF "False" \in r THEN MatchFrom(mb, patterns, i, j + 1) ELSE {})

\* del mailbox[i]
DelAt(s, i) == [k \in 1..(Len(s) - 1) |-> IF k < i THEN s[k] ELSE s[k + 1]]

\* Actor._match_patterns: (pattern, message) and the index it deleted,
\* or (None, None), or the exception that left it
_match_patterns(mb, patterns) ==
    {IF m.i = 0
     THEN [pat |-> PyNone, msg |-> PyNone, i |-> 0, j |-> 0, exc |-> m.exc]
     ELSE [pat |-> patterns[m.j], msg |-> mb[m.i], i |-> m.i, j |-> m.j,
           exc |-> "none"] : m \in MatchFrom(mb, patterns, 1, 1)}

\* the pattern receive returns when it was called without patterns
AnyPattern == Dict1("<type 'object'>", TType("object"))

\* one scan of receive: the patterns against the mailbox, or its head when
\* there are no patterns
Scan(mb, patterns) ==
    IF Len(patterns) > 0 THEN _match_patterns(mb, patterns)
    ELSE IF Len(mb) > 0
         THEN {[pat |-> AnyPattern, msg |-> mb[1], i |-> 1, j |-> 0, exc |-> "none"]}
         ELSE {[pat |-> PyNone, msg |-> PyNone, i |-> 0, j |-> 0, exc |-> "none"]}

RemoveAt(mb, i) == IF i = 0 THEN mb ELSE DelAt(mb, i)

\* the shapes Address.call receives against
\* RSP with any string for the message_id
RSPAnyId(id) == Dict2("response", TType("str"), "message", TType("object"))

RSP(id) == Dict2("response", VStr(id), "message", TType("object"))
\* EXC without the message_id
EXCNoId(id) == Dict1("exception", TType("object"))
EXC(id) == Dict2("response", VStr(id), "exception", TType("object"))
INV(id) == Dict2("response", VStr(id), "invalid_method", TType("str"))
\* the three shapes with any string for the message_id
CallPatternsAnyId(id) ==
    <<Dict2("response", TType("str"), "message", TType("object")),
      Dict2("response", TType("str"), "exception", TType("object")),
      Dict2("response", TType("str"), "invalid_method", TType("str"))>>

CallPatterns(id) == <<RSP(id), EXC(id), INV(id)>>

CallMsg(id, method, caller, message) ==
    VDict([k \in {"call", "method", "address", "message"} |->
            CASE k = "call" -> VStr(id)
              [] k = "method" -> VStr(method)
              [] k = "address" -> VAddr(caller)
              [] OTHER -> message])

\* str(uuid.uuid1()) of the n-th call
CallId(n) == "c" \o ToString(n)

\* receive returned (pattern, message) to the actor's own code
ReceiveRet(sc, patterns, timeout, W, W1, a, blocked) ==
    [op |-> "receive", exc |-> "none", v |-> sc.msg, pat |-> sc.pat,
     patterns |-> patterns, timeout |-> timeout, before |-> W.mb[a],
     after |-> W1.mb[a], tags |-> W.tg[a], i |-> sc.i, blocked |-> blocked,
     target |-> 0, id |-> ""]

\* the exception of the Timeout that the receive rc runs under: receive's
\* own, or the one Address.call started before it called receive
TimerOf(rc) == IF rc.kind = "user" THEN "ReceiveTimeout" ELSE "Timeout"

\* the pending Timeouts of actor a once the receive rc was left without
\* timer.cancel() or cancel.cancel()
Leak(lk, a, rc) ==
    IF rc.timer = "armed" THEN [lk EXCEPT ![a][TimerOf(rc)] = @ + 1] ELSE lk

\* what the loop body of Actor.receive does once its scan gave sc
AfterScan(a, W, rc, sc) ==
    LET W1 == [W EXCEPT !.mb[a] = RemoveAt(@, sc.i), !.tg[a] = RemoveAt(@, sc.i)]
        ended(e, v) == [Ret(rc.kind, e, v) EXCEPT !.pat = sc.pat, !.id = rc.id,
                           !.before = W.mb[a], !.after = W1.mb[a],
                           !.tags = W.tg[a], !.i = sc.i, !.target = rc.target,
                           !.timeout = rc.timeout, !.blocked = rc.blocked]
    IN  IF sc.exc # "none"
        THEN {[W |-> [W1 EXCEPT !.lk = Leak(@, a, rc)], status |-> "raising",
               rcv |-> NoRcv, ret |-> Ret("receive", sc.exc, PyNone)]}
        ELSE IF sc.pat # PyNone
        THEN CASE rc.kind = "user" ->
                    {[W |-> W1, status |-> "running", rcv |-> NoRcv,
                      ret |-> ReceiveRet(sc, rc.patterns, rc.timeout, W, W1, a,
                                         rc.blocked)]}
               [] sc.j = 3 ->
                    {[W |-> W1, status |-> "raising", rcv |-> NoRcv,
                      ret |-> ended("RemoteAttributeError", VStr(rc.method))]}
               [] sc.j = 2 ->
                    {[W |-> W1, status |-> "raising", rcv |-> NoRcv,
                      ret |-> ended("RemoteException", sc.msg)]}
               [] rc.kind = "call" ->
                    {[W |-> W1, status |-> "running", rcv |-> NoRcv,
                      ret |-> ended("none", sc.msg.v["message"])]}
               [] OTHER ->
                    {IF r.exc # "none"
                     THEN [W |-> r.W, status |-> "raising", rcv |-> NoRcv,
                           ret |-> Ret("cast", r.exc, PyNone)]
                     ELSE [W |-> r.W, status |-> "running", rcv |-> NoRcv,
                           ret |-> Ret("cast", "none", PyNone)] :
                        r \in cast(W1, a, rc.target, sc.msg.v["message"])}
        ELSE {[W |-> [W1 EXCEPT !.we[a] = "clear"], status |-> "receiving",
               rcv |-> [rc EXCEPT !.blocked = TRUE], ret |-> ret[a]]}

\* The loop body of Actor.receive for actor a, entered with the state W and
\* the receive rc: one scan, then either the return to the caller of receive
\* (the actor's code, Address.call, or the call that Address.cast makes
\* through __getattr__ for a message that is an Address) or the wait on a
\* new Event; an exception that leaves the scan leaves receive with the
\* timer still pending.  The result is the set of the states the actor can
\* suspend or continue in.
ReceiveLoop(a, W, rc) ==
    UNION {AfterScan(a, W, rc, sc) : sc \in Scan(W.mb[a], rc.patterns)}

\* the state an operation of actor a leaves: one of the outcomes in os, each
\* [W, status, rcv, ret]
Leave(a, os) ==
    \E x \in os :
        /\ mailbox' = x.W.mb
        /\ wevent' = x.W.we
        /\ mtag' = x.W.tg
        /\ nsent' = x.W.ns
        /\ leaked' = x.W.lk
        /\ status' = [status EXCEPT ![a] = x.status]
        /\ rcv' = [rcv EXCEPT ![a] = x.rcv]
        /\ ret' = [ret EXCEPT ![a] = x.ret]

\* a receive that begins: its arguments, the timer it or its caller started,
\* and for the receive of a call the call's message_id, address and method
Rcv(patterns, timeout, kind, id, target, method) ==
    [patterns |-> patterns, timeout |-> timeout,
     timer |-> IF timeout = "None" THEN "none" ELSE "armed",
     kind |-> kind, id |-> id, target |-> target, method |-> method,
     blocked |-> FALSE]

\* receive that takes a timeout of 0 as it takes a positive one
receive_waits(a, patterns, timeout) ==
    /\ status[a] = "running"
    /\ Leave(a, ReceiveLoop(a, World, Rcv(patterns, timeout, "user", "", 0, "")))
    /\ UNCHANGED <<actor_id, all_actors, alinks, exit_links, exit_event, killreq,
                   waiton, killed>>

\* Actor.receive(*patterns, timeout=...) called by the code of actor a;
\* timeout is "0", "pos" (a positive number) or "None"
receive(a, patterns, timeout) ==
    /\ status[a] = "running"
    /\ IF timeout = "0"
       THEN Leave(a, {LET W1 == [World EXCEPT !.mb[a] = RemoveAt(@, sc.i),
                                                !.tg[a] = RemoveAt(@, sc.i)]
                      IN  IF sc.exc # "none"
                          THEN [W |-> W1, status |-> "raising", rcv |-> NoRcv,
                                ret |-> Ret("receive", sc.exc, PyNone)]
                          ELSE [W |-> W1, status |-> "running", rcv |-> NoRcv,
                                ret |-> ReceiveRet(sc, patterns, timeout, World, W1,
                                                   a, FALSE)] :
                         sc \in Scan(mailbox[a], patterns)})
       ELSE Leave(a, ReceiveLoop(a, World, Rcv(patterns, timeout, "user", "", 0, "")))
    /\ UNCHANGED <<actor_id, all_actors, alinks, exit_links, exit_event, killreq,
                   waiton, killed>>

\* a receive in the code of an actor
Receive(a, patterns, timeout) ==
    /\ count.recvs < MaxReceives
    /\ count' = [count EXCEPT !.recvs = @ + 1]
    /\ receive(a, patterns, timeout)
    /\ UNCHANGED <<gather, server, frame>>

\* ReceiveWake whose rescan goes back to waiting without the timer
ReceiveWakeDisarms(a) ==
    /\ ~Busy
    /\ status[a] = "receiving"
    /\ wevent[a] = "set"
    /\ Leave(a, ReceiveLoop(a, [World EXCEPT !.we[a] = "None"],
                            [rcv[a] EXCEPT !.timer = "none"]))
    /\ UNCHANGED <<actor_id, all_actors, alinks, exit_links, exit_event, killreq,
                   waiton, count, killed, gather, server, frame>>

\* the hub switches back into an actor whose wait event was set: receive
\* clears _wevent and scans again
ReceiveWake(a) ==
    /\ ~Busy
    /\ status[a] = "receiving"
    /\ wevent[a] = "set"
    /\ Leave(a, ReceiveLoop(a, [World EXCEPT !.we[a] = "None"], rcv[a]))
    /\ UNCHANGED <<actor_id, all_actors, alinks, exit_links, exit_event, killreq,
                   waiton, count, killed, gather, server, frame>>

\* the Timeout that receive armed fires while the actor waits: ReceiveTimeout
\* is thrown into the wait and receive returns (None, None)
ReceiveTimeout(a) ==
    /\ ~Busy
    /\ status[a] = "receiving"
    /\ rcv[a].kind = "user"
    /\ rcv[a].timer = "armed"
    /\ Leave(a, {[W |-> [World EXCEPT !.we[a] = "None"], status |-> "running",
                  rcv |-> NoRcv,
                  ret |-> ReceiveRet([pat |-> PyNone, msg |-> PyNone, i |-> 0],
                                     rcv[a].patterns, rcv[a].timeout, World, World, a,
                                     TRUE)]})
    /\ UNCHANGED <<actor_id, all_actors, alinks, exit_links, exit_event, killreq,
                   waiton, count, killed, gather, server, frame>>

\* Address.cast(message) called by the code of actor a on the address of
\* target.  hasattr(message, '_as_json_obj') is true of an Address, whose
\* __getattr__ answers every name: the message is then replaced by the result
\* of message.call('_as_json_obj'), which casts a call to the actor the
\* message refers to and receives the response.
Cast(a, target, message) ==
    /\ status[a] = "running"
    /\ Created(target)
    /\ count.casts < MaxCasts
    /\ IF message.t = "addr"
       THEN LET id == CallId(count.calls + 1)
            IN  /\ Created(message.v)
                /\ Leave(a, UNION {
                        IF r.exc # "none"
                        THEN {[W |-> r.W, status |-> "raising", rcv |-> NoRcv,
                               ret |-> Ret("cast", r.exc, PyNone)]}
                        ELSE ReceiveLoop(a, r.W, Rcv(CallPatterns(id), "None",
                                                     "castcall", id, target,
                                                     "_as_json_obj")) :
                           r \in cast(World, a, message.v,
                                      CallMsg(id, "_as_json_obj", a, PyNone))})
                /\ count' = [count EXCEPT !.casts = @ + 1, !.calls = @ + 1]
       ELSE /\ Leave(a, {[W |-> r.W,
                          status |-> IF r.exc # "none" THEN "raising" ELSE "running",
                          rcv |-> NoRcv, ret |-> Ret("cast", r.exc, PyNone)] :
                            r \in cast(World, a, target, message)})
            /\ count' = [count EXCEPT !.casts = @ + 1]
    /\ UNCHANGED <<actor_id, all_actors, alinks, exit_links, exit_event, killreq,
                   waiton, gather, server, killed, frame>>

CALL_PATTERN ==
    VDict([k \in {"call", "method", "address", "message"} |->
            CASE k = "call" -> TType("str")
              [] k = "method" -> TType("str")
              [] k = "address" -> TType("Address")
              [] OTHER -> TType("object")])

\* Actor.respond, respond_invalid_method and respond_exception called by
\* actor a in the state W: the cast of the response to the caller's address.
\* Result: the outcomes it can have, each the new state and the exception
\* raised, if any.
respond_with(W, a, orig_message, key, value) ==
    UNION {CASE o = "True" ->
                    cast(W, a, orig_message.v["address"].v,
                         Dict2("response", orig_message.v["call"], key, value))
             [] o = "False" -> {[W |-> W, exc |-> "InvalidCallMessage"]}
             [] OTHER -> {[W |-> W, exc |-> o]} :
              o \in is_shaped(orig_message, CALL_PATTERN)}

respond(W, a, orig_message, response) ==
    respond_with(W, a, orig_message, "message", response)

respond_invalid_method(W, a, orig_message, method) ==
    respond_with(W, a, orig_message, "invalid_method", method)

respond_exception(W, a, orig_message, exception) ==
    respond_with(W, a, orig_message, "exception", exception)

\* Actor.respond(orig_message, response) called by the code of actor a with
\* the message its last receive returned
Respond(a, response) ==
    /\ status[a] = "running"
    /\ ret[a].op = "receive"
    /\ ret[a].pat # PyNone
    /\ count.casts < MaxCasts
    /\ count' = [count EXCEPT !.casts = @ + 1]
    /\ Leave(a, {[W |-> r.W,
                   status |-> IF r.exc # "none" THEN "raising" ELSE "running",
                   rcv |-> NoRcv, ret |-> Ret("respond", r.exc, PyNone)] :
                     r \in respond(World, a, ret[a].v, response)})
    /\ UNCHANGED <<actor_id, all_actors, alinks, exit_links, exit_event, killreq,
                   waiton, gather, server, killed, frame>>

\* Address.call(method, message, timeout) called by the code of actor a on
\* the address of target: a fresh message_id, the cast of the call message,
\* the Timeout started when a timeout is given ("pos"), and the receive of
\* the three shapes that carry the message_id
Call(a, target, method, message, timeout) ==
    /\ status[a] = "running"
    /\ Created(target)
    /\ count.calls < MaxCalls
    /\ count' = [count EXCEPT !.calls = @ + 1]
    /\ LET id == CallId(count.calls + 1)
       IN  Leave(a, UNION {
                IF r.exc # "none"
                THEN {[W |-> r.W, status |-> "raising", rcv |-> NoRcv,
                       ret |-> [Ret("call", r.exc, PyNone) EXCEPT !.id = id]]}
                ELSE ReceiveLoop(a, r.W, Rcv(CallPatterns(id), timeout, "call",
                                             id, target, method)) :
                   r \in cast(World, a, target, CallMsg(id, method, a, message))})
    /\ UNCHANGED <<actor_id, all_actors, alinks, exit_links, exit_event, killreq,
                   waiton, gather, server, killed, frame>>

\* CallTimeout with a receive that handles the Timeout of the call as it
\* handles no message: it goes on waiting
CallTimeoutHandled(a) ==
    /\ ~Busy
    /\ status[a] = "receiving"
    /\ rcv[a].kind = "call"
    /\ rcv[a].timer = "armed"
    /\ rcv' = [rcv EXCEPT ![a].timer = "none"]
    /\ UNCHANGED <<status, ret, wevent, actor_id, all_actors, mailbox, alinks,
                   exit_links, exit_event, killreq, waiton, mtag, nsent, leaked, count,
                   killed, gather, server, frame>>

\* the gevent.Timeout that call started fires while the caller waits in
\* receive: it is raised in the caller, and receive, which handles only
\* ReceiveTimeout, lets it through (its finally clause resets _wevent)
CallTimeout(a) ==
    /\ ~Busy
    /\ status[a] = "receiving"
    /\ rcv[a].kind = "call"
    /\ rcv[a].timer = "armed"
    /\ status' = [status EXCEPT ![a] = "raising"]
    /\ ret' = [ret EXCEPT ![a] = [Ret("call", "Timeout", PyNone) EXCEPT
                                     !.id = rcv[a].id, !.target = rcv[a].target,
                                     !.timeout = rcv[a].timeout,
                                     !.before = mailbox[a], !.after = mailbox[a]]]
    /\ rcv' = [rcv EXCEPT ![a] = NoRcv]
    /\ wevent' = [wevent EXCEPT ![a] = "None"]
    /\ UNCHANGED <<actor_id, all_actors, mailbox, alinks, exit_links, exit_event,
                   killreq, waiton, mtag, nsent, leaked, count, killed, gather, server, frame>>

\* the code of actor a handles the exception its last operation raised
\* (try: ... except: ...) and goes on
Catch(a) ==
    /\ status[a] = "raising"
    /\ status' = [status EXCEPT ![a] = "running"]
    /\ UNCHANGED <<actor_id, all_actors, mailbox, wevent, alinks, exit_links,
                   exit_event, killreq, rcv, waiton, ret, mtag, nsent, leaked, count, killed,
                   gather, server, frame>>

(***************************************************************************)
(* Lifecycle.                                                              *)
(***************************************************************************)
\* the slot of the next actor object to be constructed
FreeSlot == CHOOSE c \in Actors : status[c] = "none" /\
                \A d \in Actors : status[d] = "none" => c <= d

\* Actor.add_link
add_link(links, address, trap_exit) ==
    [al |-> Append(links.al, address),
     el |-> IF trap_exit THEN Append(links.el, address) ELSE links.el]

\* Actor.__init__ of the actor object in slot c: a fresh id, registered
__init__(c) ==
    /\ actor_id' = [actor_id EXCEPT ![c] = Uuid(c)]
    /\ all_actors' = [all_actors EXCEPT ![Uuid(c)] = c]

\* spawn and spawn_link called by actor a: Actor.__init__ draws
\* the id and registers the actor, spawn_link links the caller, and the
\* switch into the new greenlet is left to the hub (spawn_later(0, ...))
spawn(a, link) ==
    /\ status[a] = "running"
    /\ \E c \in Actors : status[c] = "none"
    /\ LET c == FreeSlot
           l == IF link THEN add_link([al |-> <<>>, el |-> <<>>], a, TRUE)
                ELSE [al |-> <<>>, el |-> <<>>]
       IN  /\ __init__(c)
           /\ status' = [status EXCEPT ![c] = "unstarted"]
           /\ alinks' = [alinks EXCEPT ![c] = l.al]
           /\ exit_links' = [exit_links EXCEPT ![c] = l.el]
    /\ UNCHANGED <<mailbox, wevent, exit_event, killreq, rcv, ret, mtag, nsent, leaked,
                   count, killed>>

\* a spawn or spawn_link in the code of an actor
Spawn(a, link) ==
    /\ spawn(a, link)
    /\ UNCHANGED <<waiton, gather, server, frame>>

\* the hub runs the switch that spawn scheduled: the actor's code begins
Start(c) ==
    /\ ~Busy
    /\ status[c] = "unstarted"
    /\ status' = [status EXCEPT ![c] = "running"]
    /\ UNCHANGED <<actor_id, all_actors, mailbox, wevent, alinks, exit_links,
                   exit_event, killreq, rcv, waiton, ret, mtag, nsent, leaked, count, killed,
                   gather, server, frame>>

\* an operation of actor a raised e into the actor's code
Raised(a, op, e) ==
    /\ status' = [status EXCEPT ![a] = "raising"]
    /\ ret' = [ret EXCEPT ![a] = Ret(op, e, PyNone)]

\* Address.link that registers the link without dereferencing the address
LinkUnchecked(a, target, trap_exit) ==
    /\ status[a] = "running"
    /\ Created(target)
    /\ count.ops < MaxOps
    /\ count' = [count EXCEPT !.ops = @ + 1]
    /\ LET l == add_link([al |-> alinks[target], el |-> exit_links[target]],
                         a, trap_exit)
       IN  /\ alinks' = [alinks EXCEPT ![target] = l.al]
           /\ exit_links' = [exit_links EXCEPT ![target] = l.el]
    /\ UNCHANGED <<status, ret, actor_id, all_actors, mailbox, wevent, exit_event,
                   killreq, rcv, waiton, mtag, nsent, leaked, gather, server, killed, frame>>

\* Address.link(trap_exit) called by the code of actor a on target's address
Link(a, target, trap_exit) ==
    /\ status[a] = "running"
    /\ Created(target)
    /\ count.ops < MaxOps
    /\ count' = [count EXCEPT !.ops = @ + 1]
    /\ IF Dead(target)
       THEN /\ Raised(a, "link", "DeadActor")
            /\ UNCHANGED <<alinks, exit_links>>
       ELSE LET l == add_link([al |-> alinks[target], el |-> exit_links[target]],
                              a, trap_exit)
            IN  /\ alinks' = [alinks EXCEPT ![target] = l.al]
                /\ exit_links' = [exit_links EXCEPT ![target] = l.el]
                /\ UNCHANGED <<status, ret>>
    /\ UNCHANGED <<actor_id, all_actors, mailbox, wevent, exit_event, killreq,
                   rcv, waiton, mtag, nsent, leaked, gather, server, killed, frame>>

\* Address.kill() called by the code of actor a: gevent.kill schedules the
\* throw of Killed on the hub and returns
Kill(a, target) ==
    /\ status[a] = "running"
    /\ Created(target)
    /\ count.ops < MaxOps
    /\ count' = [count EXCEPT !.ops = @ + 1]
    /\ IF Dead(target)
       THEN /\ Raised(a, "kill", "DeadActor")
            /\ UNCHANGED killreq
       ELSE /\ killreq' = [killreq EXCEPT ![target] = TRUE]
            /\ UNCHANGED <<status, ret>>
    /\ UNCHANGED <<actor_id, all_actors, mailbox, wevent, alinks, exit_links,
                   exit_event, rcv, waiton, mtag, nsent, leaked, gather, server, killed, frame>>

\* the hub runs greenlet.throw(Killed) for target.  A greenlet that was never
\* switched into dies at once and runs none of its code; a suspended one gets
\* Killed raised at its suspension point, and the Timeout of the receive or
\* call it leaves stays pending; a finished one is unaffected.
Throw(target) ==
    /\ ~Busy
    /\ killreq[target]
    /\ killreq' = [killreq EXCEPT ![target] = FALSE]
    /\ CASE status[target] = "unstarted" ->
                /\ status' = [status EXCEPT ![target] = "dead"]
                /\ killed' = killed \cup {target}
                /\ UNCHANGED <<ret, wevent, rcv, waiton, leaked>>
         [] status[target] \in {"receiving", "waiting", "sleeping"} ->
                /\ Raised(target, status[target], "Killed")
                /\ killed' = killed \cup {target}
                /\ wevent' = [wevent EXCEPT ![target] = "None"]
                /\ rcv' = [rcv EXCEPT ![target] = NoRcv]
                /\ waiton' = [waiton EXCEPT ![target] = 0]
                /\ leaked' = Leak(leaked, target, rcv[target])
         [] OTHER -> UNCHANGED <<status, ret, wevent, rcv, waiton, killed, leaked>>
    /\ UNCHANGED <<actor_id, all_actors, mailbox, alinks, exit_links, exit_event,
                   mtag, nsent, count, gather, server, frame>>

\* A Timeout that actor a started and that no cancel() reached fires while
\* the actor is suspended in a later operation: its exception e is thrown
\* into the actor at its suspension point.  gevent.sleep and
\* AsyncResult.get let it through.  A receive handles ReceiveTimeout as it
\* handles that of its own timer, returning (None, None), on which
\* Address.call cancels its Timeout and fails at response['message'] with
\* TypeError; it lets a gevent.Timeout through, which leaves a call before
\* cancel.cancel().  The timer of the operation that is left this way stays
\* pending in its turn.  (Server.main and Gather.main start no Timeout.)
StaleTimeout(a, e) ==
    /\ ~Busy
    /\ leaked[a][e] > 0
    /\ status[a] \in {"receiving", "sleeping", "waiting"}
    /\ LET lk == [leaked EXCEPT ![a][e] = @ - 1]
           rc == rcv[a]
           ended(op, x) == [Ret(op, x, PyNone) EXCEPT
                               !.id = rc.id, !.target = rc.target,
                               !.timeout = rc.timeout, !.patterns = rc.patterns,
                               !.before = mailbox[a], !.after = mailbox[a],
                               !.blocked = TRUE]
       IN  IF status[a] # "receiving"
           THEN /\ Raised(a, status[a], e)
                /\ leaked' = lk
                /\ UNCHANGED <<wevent, rcv>>
           ELSE /\ wevent' = [wevent EXCEPT ![a] = "None"]
                /\ rcv' = [rcv EXCEPT ![a] = NoRcv]
                /\ IF e = "ReceiveTimeout"
                   THEN IF rc.kind = "user"
                        THEN /\ status' = [status EXCEPT ![a] = "running"]
                             /\ ret' = [ret EXCEPT ![a] =
                                           ReceiveRet([pat |-> PyNone, msg |-> PyNone,
                                                       i |-> 0],
                                                      rc.patterns, rc.timeout, World,
                                                      World, a, TRUE)]
                             /\ leaked' = Leak(lk, a, rc)
                        ELSE /\ status' = [status EXCEPT ![a] = "raising"]
                             /\ ret' = [ret EXCEPT ![a] =
                                           ended(IF rc.kind = "call" THEN "call"
                                                 ELSE "cast", "TypeError")]
                             /\ leaked' = lk
                   ELSE /\ status' = [status EXCEPT ![a] = "raising"]
                        /\ ret' = [ret EXCEPT ![a] =
                                      ended(CASE rc.kind = "user" -> "receive"
                                              [] rc.kind = "call" -> "call"
                                              [] OTHER -> "cast", e)]
                        /\ leaked' = Leak(lk, a, rc)
    /\ waiton' = [waiton EXCEPT ![a] = 0]
    /\ UNCHANGED <<actor_id, all_actors, mailbox, alinks, exit_links, exit_event,
                   killreq, mtag, nsent, count, killed, gather, server, frame>>

\* Address.wait() called by the code of actor a: self._actor, then get() on
\* the AsyncResult, which is not set while the target is not dead
Wait(a, target) ==
    /\ status[a] = "running"
    /\ Created(target)
    /\ IF Dead(target)
       THEN /\ status' = [status EXCEPT ![a] = "raising"]
            /\ ret' = [ret EXCEPT ![a] =
                          [Ret("wait", "DeadActor", PyNone) EXCEPT !.target = target]]
            /\ UNCHANGED waiton
       ELSE /\ status' = [status EXCEPT ![a] = "waiting"]
            /\ waiton' = [waiton EXCEPT ![a] = target]
            /\ UNCHANGED ret
    /\ UNCHANGED <<actor_id, all_actors, mailbox, wevent, alinks, exit_links,
                   exit_event, killreq, rcv, mtag, nsent, leaked, count, killed, gather, server, frame>>

\* the AsyncResult was set: get() returns its value or raises its exception
WaitResume(a) ==
    /\ ~Busy
    /\ status[a] = "waiting"
    /\ exit_event[waiton[a]].st # "unset"
    /\ LET e == exit_event[waiton[a]]
       IN  IF e.st = "value"
           THEN /\ status' = [status EXCEPT ![a] = "running"]
                /\ ret' = [ret EXCEPT ![a] =
                              [Ret("wait", "none", e.v) EXCEPT !.target = waiton[a]]]
           ELSE /\ status' = [status EXCEPT ![a] = "raising"]
                /\ ret' = [ret EXCEPT ![a] =
                              [Ret("wait", e.v.v, PyNone) EXCEPT !.target = waiton[a]]]
    /\ waiton' = [waiton EXCEPT ![a] = 0]
    /\ UNCHANGED <<actor_id, all_actors, mailbox, wevent, alinks, exit_links,
                   exit_event, killreq, rcv, mtag, nsent, leaked, count, killed, gather, server, frame>>

\* Actor.sleep / Actor.cooperate: gevent.sleep
Sleep(a) ==
    /\ status[a] = "running"
    /\ count.ops < MaxOps
    /\ count' = [count EXCEPT !.ops = @ + 1]
    /\ status' = [status EXCEPT ![a] = "sleeping"]
    /\ UNCHANGED <<actor_id, all_actors, mailbox, wevent, alinks, exit_links,
                   exit_event, killreq, rcv, waiton, ret, mtag, nsent, leaked, gather, server, killed,
                   frame>>

SleepWake(a) ==
    /\ ~Busy
    /\ status[a] = "sleeping"
    /\ status' = [status EXCEPT ![a] = "running"]
    /\ UNCHANGED <<ret, actor_id, all_actors, mailbox, wevent, alinks, exit_links,
                   exit_event, killreq, rcv, waiton, mtag, nsent, leaked, count, killed, gather, server,
                   frame>>

\* Actor.rename(name) called by the actor's own code
Rename(a, name) ==
    /\ status[a] = "running"
    /\ count.ops < MaxOps
    /\ count' = [count EXCEPT !.ops = @ + 1]
    /\ IF all_actors[actor_id[a]] = 0
       THEN /\ Raised(a, "rename", "KeyError")
            /\ UNCHANGED <<actor_id, all_actors>>
       ELSE /\ actor_id' = [actor_id EXCEPT ![a] = name]
            /\ all_actors' = [all_actors EXCEPT ![actor_id[a]] = 0, ![name] = a]
            /\ UNCHANGED <<status, ret>>
    /\ UNCHANGED <<mailbox, wevent, alinks, exit_links, exit_event, killreq,
                   rcv, waiton, mtag, nsent, leaked, gather, server, killed, frame>>

\* the code of actor a raises e
Raise(a, e) ==
    /\ status[a] = "running"
    /\ Raised(a, "raise", e)
    /\ UNCHANGED <<actor_id, all_actors, mailbox, wevent, alinks, exit_links,
                   exit_event, killreq, rcv, waiton, mtag, nsent, leaked, count, killed, gather, server,
                   frame>>

\* exc.format_exc(): the exception as a tree of plain values
format_exc(e) == Dict1("exception", VStr(e))

ExitMessage(a, result) == Dict2("address", VAddr(a), "exit", result)
ExceptionMessage(a, formatted) == Dict2("address", VAddr(a), "exception", formatted)

\* all_actors.pop(self.actor_id), the last statement of _run
Deregister(a) ==
    IF all_actors[actor_id[a]] = 0 THEN all_actors
    ELSE [all_actors EXCEPT ![actor_id[a]] = 0]

\* the end of Actor._run, after the actor's code returned (exception = "none")
\* or raised: the exit event, the casts to the links, the deregistration.
\* A cast that raises leaves _run at once.
\* Result: the outcomes it can have, each the new state and the exception
\* that left _run, if any.
_run(a, result, exception) ==
    LET after(x, ev) ==
            [W |-> x.W, ev |-> ev,
             reg |-> IF x.exc = "none" THEN Deregister(a) ELSE all_actors,
             exc |-> IF x.exc # "none" THEN x.exc
                     ELSE IF all_actors[actor_id[a]] = 0 THEN "KeyError"
                     ELSE "none"]
    IN  IF exception = "none"
        THEN {after(x, [st |-> "value", v |-> result]) :
                 x \in CastLinks(World, a, exit_links[a], 1, ExitMessage(a, result))}
        ELSE UNION {
                IF y.exc # "none"
                THEN {[W |-> y.W, ev |-> exit_event[a], reg |-> all_actors,
                       exc |-> y.exc]}
                ELSE {after(x, [st |-> "exception", v |-> VStr(exception)]) :
                         x \in CastLinks(y.W, a, exit_links[a], 1,
                                         ExitMessage(a, PyNone))} :
                   y \in CastLinks(World, a, alinks[a], 1,
                                   ExceptionMessage(a, format_exc(exception)))}

\* the greenlet of actor a ends with one of the outcomes os of _run
Finish(a, os, op, v) ==
    /\ \E x \in os :
        /\ mailbox' = x.W.mb
        /\ wevent' = x.W.we
        /\ mtag' = x.W.tg
        /\ nsent' = x.W.ns
        /\ leaked' = x.W.lk
        /\ exit_event' = [exit_event EXCEPT ![a] = x.ev]
        /\ all_actors' = x.reg
        /\ status' = [status EXCEPT ![a] = "dead"]
        /\ ret' = [ret EXCEPT ![a] = Ret(op, x.exc, v)]
    /\ UNCHANGED <<actor_id, alinks, exit_links, killreq, rcv, waiton, count,
                   killed>>

\* the code of actor a returns result: the try branch of _run and what follows
Return(a, result) ==
    /\ status[a] = "running"
    /\ Finish(a, _run(a, result, "none"), "return", result)
    /\ UNCHANGED <<gather, server, frame>>

\* an exception leaves the code of actor a: the except branch of _run and
\* what follows
Except(a) ==
    /\ status[a] = "raising"
    /\ Finish(a, _run(a, PyNone, ret[a].exc), "except", VStr(ret[a].exc))
    /\ UNCHANGED <<gather, server, frame>>

(***************************************************************************)
(* Server.                                                                 *)
(***************************************************************************)
\* the methods of the Server subclass: foo returns THE_RESULT, boom raises,
\* nap sleeps and then returns THE_RESULT; the class has no other attribute
\* that a call names
THE_RESULT == VStr("r")
Methods == {"foo", "boom", "nap", "bar"}
getattr(method) ==
    CASE method = "foo" -> "return"
      [] method = "boom" -> "raise"
      [] method = "nap" -> "sleep"
      [] OTHER -> "None"

\* what Server.main did with a call message: the exception or the return of
\* the method, and the responses whose cast succeeded
Handled(message, outcome, sent) ==
    [call |-> message.v["call"].v, method |-> message.v["method"].v,
     outcome |-> outcome, sent |-> sent]

\* the rest of an iteration of Server.main once getattr found no method
\* (outcome "None") or the method returned result (outcome "return") or
\* raised (outcome "raise"): respond_invalid_method, or respond, or the
\* except clause with respond_exception when the method or respond raised.
\* (A cast that raises has changed nothing, so respond_exception starts
\* from the same state.)  The server is then at the top of the loop, or has
\* the exception of the last cast raised in it.
ServerRespond(s, message, outcome, result, raised) ==
    \E first \in (CASE outcome = "None" ->
                        respond_invalid_method(World, s, message, message.v["method"])
                    [] outcome = "return" -> respond(World, s, message, result)
                    [] OTHER -> {[W |-> World, exc |-> raised]}) :
    \E last \in (IF first.exc = "none" \/ outcome = "None" THEN {first}
                 ELSE respond_exception(World, s, message, format_exc(first.exc))) :
        LET key == IF first.exc # "none" THEN "exception"
                   ELSE IF outcome = "None" THEN "invalid_method" ELSE "message"
            value == IF first.exc # "none" THEN format_exc(first.exc)
                     ELSE IF outcome = "None" THEN message.v["method"] ELSE result
            sent == IF last.exc # "none" THEN <<>>
                    ELSE <<Dict2("response", message.v["call"], key, value)>>
        IN  /\ Leave(s, {[W |-> last.W,
                          status |-> IF last.exc = "none" THEN "running" ELSE "raising",
                          rcv |-> NoRcv, ret |-> Ret("respond", last.exc, PyNone)]})
            /\ server' = [server EXCEPT !.pc = "receive", !.message = message,
                             !.log = Append(@, Handled(message, outcome, sent))]

\* the common frame of the steps of the server
ServerFrame ==
    UNCHANGED <<actor_id, all_actors, alinks, exit_links, exit_event, killreq,
                waiton, count, killed, gather, frame>>

\* Server.main begins: server_start
ServerStart(s) ==
    /\ server.g = s
    /\ server.pc = "init"
    /\ status[s] = "running"
    /\ server' = [server EXCEPT !.starts = @ + 1, !.pc = "receive"]
    /\ UNCHANGED <<status, mailbox, wevent, mtag, nsent, leaked, rcv, ret>>
    /\ ServerFrame

\* the top of the while loop of Server.main: self.receive(CALL_PATTERN)
ServerReceive(s) ==
    /\ server.g = s
    /\ server.pc = "receive"
    /\ receive(s, <<CALL_PATTERN>>, "None")
    /\ server' = [server EXCEPT !.pc = "dispatch"]
    /\ UNCHANGED <<count, gather, frame>>

\* receive returned a call message: getattr, then respond_invalid_method,
\* or the method, which returns, raises or sleeps, and respond
ServerHandle(s) ==
    /\ server.g = s
    /\ server.pc = "dispatch"
    /\ status[s] = "running"
    /\ \E message \in {ret[s].v} : \E outcome \in {getattr(message.v["method"].v)} :
          IF outcome = "sleep"
          THEN /\ status' = [status EXCEPT ![s] = "sleeping"]
               /\ server' = [server EXCEPT !.pc = "method", !.message = message]
               /\ UNCHANGED <<mailbox, wevent, mtag, nsent, leaked, rcv, ret>>
          ELSE ServerRespond(s, message, outcome,
                             IF outcome = "return" THEN THE_RESULT ELSE PyNone,
                             IF outcome = "raise" THEN "RuntimeError" ELSE "none")
    /\ ServerFrame

\* the method that slept returns its result: respond
ServerMethodDone(s) ==
    /\ server.g = s
    /\ server.pc = "method"
    /\ status[s] = "running"
    /\ ServerRespond(s, server.message, "return", THE_RESULT, "none")
    /\ ServerFrame

\* ServerExcept without the finally clause
ServerExceptNoFinally(s) ==
    /\ server.g = s
    /\ status[s] = "raising"
    /\ IF server.pc = "method" /\ ret[s].exc # "Timeout"
       THEN /\ ServerRespond(s, server.message, "raise", PyNone, ret[s].exc)
            /\ ServerFrame
       ELSE /\ server' = [server EXCEPT !.pc = "exit"]
            /\ Finish(s, _run(s, PyNone, ret[s].exc), "except", VStr(ret[s].exc))
            /\ UNCHANGED <<gather, frame>>

\* an exception is raised in Server.main.  Inside the method it is caught by
\* "except Exception" (Killed is a RuntimeError; a gevent.Timeout is no
\* Exception and is not caught) and answered with
\* respond_exception; anywhere else in the loop it runs the finally clause,
\* server_stop, and leaves main: the except branch of _run follows
ServerExcept(s) ==
    /\ server.g = s
    /\ status[s] = "raising"
    /\ IF server.pc = "method" /\ ret[s].exc # "Timeout"
       THEN /\ ServerRespond(s, server.message, "raise", PyNone, ret[s].exc)
            /\ ServerFrame
       ELSE /\ server' = [server EXCEPT !.stops = @ + 1, !.pc = "exit"]
            /\ Finish(s, _run(s, PyNone, ret[s].exc), "except", VStr(ret[s].exc))
            /\ UNCHANGED <<gather, frame>>

(***************************************************************************)
(* Gather and wait_all.                                                    *)
(***************************************************************************)
GatherPatterns == <<Dict2("exit", TType("object"), "address", TType("object")),
                    Dict2("exception", TType("object"), "address", TType("object"))>>

\* the actors spawned for the targets
Children == IF gather.pc = "none" THEN {}
            ELSE {gather.address_list[k] : k \in 1..Len(gather.address_list)}

\* wait_all(t1..tn) called by actor a: spawn(Gather, spawnable_list).wait()
WaitAll(a, n) ==
    /\ gather.pc = "none"
    /\ status[a] = "running"
    /\ \E c \in Actors : status[c] = "none"
    /\ __init__(FreeSlot)
    /\ status' = [status EXCEPT ![a] = "waiting", ![FreeSlot] = "unstarted"]
    /\ waiton' = [waiton EXCEPT ![a] = FreeSlot]
    /\ gather' = [pc |-> "spawn", g |-> FreeSlot, n |-> n, address_list |-> <<>>,
                  messages |-> [c \in Actors |-> PyNone], has |-> {},
                  current_index |-> 0, results |-> <<>>, i |-> 0,
                  order |-> <<>>]
    /\ UNCHANGED <<mailbox, wevent, alinks, exit_links, exit_event, killreq, rcv,
                   ret, mtag, nsent, leaked, count, killed, server, frame>>

\* Gather.main: address_list = [spawn_link(x) for x in spawnable_list], one
\* target per step (no step of it suspends)
GatherSpawn(g) ==
    /\ gather.pc = "spawn"
    /\ gather.g = g
    /\ UNCHANGED <<server, frame>>
    /\ IF Len(gather.address_list) < gather.n
       THEN /\ spawn(g, TRUE)
            /\ gather' = [gather EXCEPT !.address_list = Append(@, FreeSlot)]
            /\ UNCHANGED waiton
       ELSE /\ status[g] = "running"
            /\ gather' = [gather EXCEPT !.pc = "for"]
            /\ UNCHANGED <<status, actor_id, all_actors, mailbox, wevent, alinks,
                           exit_links, exit_event, killreq, rcv, waiton, ret,
                           mtag, nsent, leaked, count, killed>>

\* Gather.main: the head of the for loop: the next receive, or return results
GatherFor(g) ==
    /\ gather.pc = "for"
    /\ gather.g = g
    /\ UNCHANGED <<server, frame>>
    /\ IF gather.i < Len(gather.address_list)
       THEN /\ receive(g, GatherPatterns, "None")
            /\ UNCHANGED count
            /\ gather' = [gather EXCEPT !.pc = "body"]
       ELSE /\ status[g] = "running"
            /\ Finish(g, _run(g, VList(gather.results), "none"), "return",
                      VList(gather.results))
            /\ gather' = [gather EXCEPT !.pc = "done"]

\* GatherBody with the record just received appended to the results
GatherBodyCompletionOrder(messages, has, current_index, results, address_list, message) ==
    LET addr == message.v["address"].v
        m2 == [messages EXCEPT ![addr] = message]
        h2 == has \cup {addr}
    IN  IF address_list[current_index + 1] \in h2
        THEN [messages |-> m2, has |-> h2, current_index |-> current_index + 1,
              results |-> Append(results, message)]
        ELSE [messages |-> m2, has |-> h2, current_index |-> current_index,
              results |-> results]

\* the statements of the loop body after receive returned
GatherBody(messages, has, current_index, results, address_list, message) ==
    LET addr == message.v["address"].v
        m2 == [messages EXCEPT ![addr] = message]
        h2 == has \cup {addr}
    IN  IF address_list[current_index + 1] \in h2
        THEN [messages |-> m2, has |-> h2, current_index |-> current_index + 1,
              results |-> Append(results, m2[address_list[current_index + 1]])]
        ELSE [messages |-> m2, has |-> h2, current_index |-> current_index,
              results |-> results]

\* Gather.main: the body of the for loop once receive has returned
GatherStore(g) ==
    /\ gather.pc = "body"
    /\ gather.g = g
    /\ status[g] = "running"
    /\ LET b == GatherBody(gather.messages, gather.has, gather.current_index,
                           gather.results, gather.address_list, ret[g].v)
       IN  gather' = [gather EXCEPT !.messages = b.messages, !.has = b.has,
                                    !.current_index = b.current_index,
                                    !.results = b.results,
                                    !.i = @ + 1, !.pc = "for",
                                    !.order = Append(@, ret[g].v.v["address"].v)]
    /\ UNCHANGED <<status, actor_id, all_actors, mailbox, wevent, alinks,
                   exit_links, exit_event, killreq, rcv, waiton, ret, mtag,
                   nsent, leaked, count, killed, server, frame>>

(***************************************************************************)
(* Specifications.                                                         *)
(***************************************************************************)
\* the state after the main greenlet spawned the actors in first, on n slots
InitActors(n, first) ==
    /\ status = [a \in 1..n |-> IF a \in first THEN "unstarted" ELSE "none"]
    /\ actor_id = [a \in 1..n |-> IF a \in first THEN Uuid(a) ELSE ""]
    /\ all_actors = [id \in {Uuid(a) : a \in 1..n} \cup {"name"} |->
                        IF \E a \in first : id = Uuid(a)
                        THEN CHOOSE a \in first : id = Uuid(a) ELSE 0]
    /\ mailbox = [a \in 1..n |-> <<>>]
    /\ wevent = [a \in 1..n |-> "None"]
    /\ alinks = [a \in 1..n |-> <<>>]
    /\ exit_links = [a \in 1..n |-> <<>>]
    /\ exit_event = [a \in 1..n |-> ExitUnset]
    /\ killreq = [a \in 1..n |-> FALSE]
    /\ rcv = [a \in 1..n |-> NoRcv]
    /\ waiton = [a \in 1..n |-> 0]
    /\ ret = [a \in 1..n |-> NoRet]
    /\ mtag = [a \in 1..n |-> <<>>]
    /\ nsent = [a \in 1..n |-> 0]
    /\ count = [casts |-> 0, calls |-> 0, ops |-> 0, recvs |-> 0]
    /\ killed = {}
    /\ leaked = [a \in 1..n |-> NoTimers]
    /\ gather = NoGather

\* ... none of them a Server
InitWith(n, first) ==
    /\ InitActors(n, first)
    /\ server = NoServer
    /\ frame = NoFrame

InitOn(n) == InitWith(n, {1})

\* wait_all: an actor calls wait_all on up to MaxTargets targets, each of
\* which sleeps or not and then returns or raises
InitGather == InitOn(MaxTargets + 2)

NextGather ==
    \/ \E a \in Actors : Start(a)
    \/ \E n \in 1..MaxTargets : WaitAll(1, n)
    \/ \E g \in Actors : GatherSpawn(g)
    \/ \E g \in Actors : GatherFor(g)
    \/ \E g \in Actors : GatherStore(g)
    \/ \E a \in Actors : ReceiveWake(a)
    \/ \E a \in Actors : WaitResume(a)
    \/ \E c \in Children : Sleep(c)
    \/ \E c \in Children : SleepWake(c)
    \/ \E c \in Children : Return(c, VInt(c))
    \/ \E c \in Children : Raise(c, "RuntimeError")
    \/ \E c \in Children : Except(c)

SpecGather == InitGather /\ [][NextGather]_vars

\* the names an actor may rename itself to: a fresh name, or the id under
\* which an actor was constructed
Names == {"name"} \cup {Uuid(c) : c \in {d \in Actors : Created(d)}}

\* the actor runtime: every actor runs arbitrary code made of the lifecycle
\* operations and of receives of anything; the hub runs whatever is due
Init == InitOn(MaxActors)

Next ==
    \/ \E a \in Actors : Start(a)
    \/ \E a \in Actors, link \in BOOLEAN : Spawn(a, link)
    \/ \E a, t \in Actors, trap_exit \in BOOLEAN : Link(a, t, trap_exit)
    \/ \E a, t \in Actors : Kill(a, t)
    \/ \E t \in Actors : Throw(t)
    \/ \E a \in Actors : \E t \in Actors \ {a} : Wait(a, t)
    \/ \E a \in Actors : WaitResume(a)
    \/ \E a \in Actors : Sleep(a)
    \/ \E a \in Actors : SleepWake(a)
    \/ \E a \in Actors : Receive(a, <<>>, "None")
    \/ \E a \in Actors : ReceiveWake(a)
    \/ \E a \in Actors : Return(a, VInt(a))
    \/ \E a \in Actors : Raise(a, "RuntimeError")
    \/ \E a \in Actors : Except(a)

Spec == Init /\ [][Next]_vars

\* casts and receives: the messages cast, the pattern lists and the timeouts
\* the actors' code uses
Messages == {PyNone, VInt(1), VStr("a"), VAddr(1), VAddr(2)}
PatternLists == {<<>>, <<TType("int")>>, <<PyNone, TType("int")>>,
                 <<TType("int"), TType("object")>>}
Timeouts == {"0", "pos", "None"}

\* the actor the messages are cast to: the first one spawned
Receiver == CHOOSE a \in Actors : \A b \in Actors : a <= b

NextRecv ==
    \/ \E a \in Actors : Start(a)
    \/ \E a \in Actors, m \in Messages : Cast(a, Receiver, m)
    \/ \E ps \in PatternLists, timeout \in Timeouts : Receive(Receiver, ps, timeout)
    \/ \E a \in Actors : ReceiveWake(a)
    \/ \E a \in Actors : ReceiveTimeout(a)
    \/ Respond(Receiver, VInt(1))
    \/ \E a \in Actors : Return(a, PyNone)
    \/ \E a \in Actors : Except(a)

\* two actors, both spawned by the main greenlet
InitRecv == InitWith(2, {1, 2})

SpecRecv == InitRecv /\ [][NextRecv]_vars

\* calls: a client and a Server; the client calls the methods of the Server
\* with and without a timeout, handles what a call raises, receives from its
\* mailbox without waiting, kills the Server, and ends
Client == 1
TheServer == 2
RESPONSE_PATTERN == Dict2("response", TType("str"), "message", TType("object"))
ClientPatterns == {<<>>, <<RESPONSE_PATTERN>>, <<TType("int")>>}

InitCall ==
    /\ InitActors(2, {Client, TheServer})
    /\ server = [NoServer EXCEPT !.g = TheServer, !.pc = "init"]
    /\ frame = NoFrame

NextCall ==
    \/ \E a \in Actors : Start(a)
    \/ ServerStart(TheServer)
    \/ ServerReceive(TheServer)
    \/ ServerHandle(TheServer)
    \/ ServerMethodDone(TheServer)
    \/ ServerExcept(TheServer)
    \/ SleepWake(TheServer)
    \/ \E method \in Methods, timeout \in {"None", "pos"} :
            Call(Client, TheServer, method, PyNone, timeout)
    \/ CallTimeout(Client)
    \/ Catch(Client)
    \/ \E ps \in ClientPatterns : Receive(Client, ps, "0")
    \/ \E a \in Actors : ReceiveWake(a)
    \/ Kill(Client, TheServer)
    \/ Throw(TheServer)
    \/ Return(Client, PyNone)
    \/ Except(Client)

SpecCall == InitCall /\ [][NextCall]_vars

\* calls with a timeout: the client calls the methods of the Server, each
\* call with a timeout, handles what a call raises, and ends
NextTimed ==
    \/ \E a \in Actors : Start(a)
    \/ ServerStart(TheServer)
    \/ ServerReceive(TheServer)
    \/ ServerHandle(TheServer)
    \/ ServerMethodDone(TheServer)
    \/ ServerExcept(TheServer)
    \/ SleepWake(TheServer)
    \/ \E method \in Methods : Call(Client, TheServer, method, PyNone, "pos")
    \/ CallTimeout(Client)
    \/ Catch(Client)
    \/ \E a \in Actors : ReceiveWake(a)
    \/ Return(Client, PyNone)
    \/ Except(Client)

\* ... under the scheduling of gevent: the hub runs what is due (here the
\* Timeout of a call that expired), and the code of a running actor goes on
\* to its next operation or to its end
SpecTimed ==
    /\ InitCall
    /\ [][NextTimed]_vars
    /\ WF_vars(CallTimeout(Client))
    /\ WF_vars(Return(Client, PyNone))
    /\ WF_vars(Except(Client))
    /\ WF_vars(ServerStart(TheServer))
    /\ WF_vars(ServerReceive(TheServer))
    /\ WF_vars(ServerHandle(TheServer))
    /\ WF_vars(ServerMethodDone(TheServer))
    /\ WF_vars(ServerExcept(TheServer))

\* receives with a timeout: the Receiver receives with a positive timeout,
\* with and without patterns, while the Sender casts to it, yields and ends;
\* the hub runs the timer of a receive once no greenlet is running, and a
\* running greenlet comes to its end
Sender == 2
TimedMessages == {VStr("a"), VInt(1)}
TimedPatternLists == {<<>>, <<TType("int")>>}

NextTimeout ==
    \/ \E a \in Actors : Start(a)
    \/ \E m \in TimedMessages : Cast(Sender, Receiver, m)
    \/ Sleep(Sender)
    \/ SleepWake(Sender)
    \/ \E ps \in TimedPatternLists : Receive(Receiver, ps, "pos")
    \/ ReceiveWake(Receiver)
    \/ ReceiveTimeout(Receiver)
    \/ \E a \in Actors : Return(a, PyNone)
    \/ Except(Sender)

SpecTimeout ==
    /\ InitRecv
    /\ [][NextTimeout]_vars
    /\ WF_vars(ReceiveTimeout(Receiver))
    /\ WF_vars(Return(Sender, PyNone))
    /\ WF_vars(Except(Sender))

\* the shape functions: is_shaped, is_shaped_exc and calculate_shape are
\* called on a value and a shape, and is_shaped on the value and the shape
\* calculate_shape returned for it.  The values are None, True, 1 and "a",
\* the lists, tuples and dicts of them, lists of dicts, tuples and lists,
\* the unicode u"a" alone and in a list with the str, two sets, and the
\* type str; the shapes are these literals, the types int, str and object,
\* and the lists, tuples and dicts of them, empty ones included, with one
\* dict of two keys, the type unicode, u"a", and sets of types.
Atoms == {VNull, VBool(TRUE), VInt(1), VStr("a")}
SeqsOf(S, n) == UNION {[1..k -> S] : k \in 0..n}
DictsOf(K, S) == UNION {[D -> S] : D \in SUBSET K}
Elements == {Dict1("k", VInt(1)), Dict1("l", VInt(1)), VTuple(<<VInt(1)>>),
             VTuple(<<VInt(1), VStr("a")>>), VList(<<VInt(1)>>)}
Things ==
    Atoms \cup {VList(x) : x \in SeqsOf(Atoms \cup Elements, MaxLen)}
          \cup {VTuple(x) : x \in SeqsOf(Atoms, MaxLen)}
          \cup {VDict(d) : d \in DictsOf({"k", "l"}, Atoms)}
          \cup {TType("str"), VUnicode("a"),
                VList(<<VStr("a"), VUnicode("a")>>),
                VList(<<VUnicode("a"), VStr("a")>>),
                VSet(<<VInt(1)>>), VSet(<<VInt(1), VStr("a")>>)}
ShapeAtoms == Atoms \cup {TType("int"), TType("str"), TType("object")}
Shapes ==
    ShapeAtoms \cup {VList(x) : x \in SeqsOf(ShapeAtoms, 1)}
               \cup {VTuple(x) : x \in SeqsOf(ShapeAtoms, MaxLen)}
               \cup {VDict(d) : d \in DictsOf({"k"}, ShapeAtoms)}
               \cup {VList(<<VDict([k \in {"k"} |-> TType("int")])>>),
                     VList(<<VList(<<>>)>>),
                     Dict2("k", TType("int"), "l", TType("int")),
                     TType("unicode"), VUnicode("a"), VSet(<<>>),
                     VSet(<<TType("int"), TType("str")>>),
                     VList(<<VSet(<<TType("int"), TType("str")>>)>>)}

ShapeFrame ==
    UNCHANGED <<status, actor_id, all_actors, mailbox, wevent, alinks, exit_links,
                exit_event, killreq, rcv, waiton, ret, mtag, nsent, leaked, count, killed,
                gather, server>>

\* is_shaped(thing, shape)
IsShaped ==
    /\ frame.is_shaped = "unset"
    /\ \E r \in is_shaped(frame.thing, frame.shape) :
          frame' = [frame EXCEPT !.is_shaped = r]
    /\ ShapeFrame

\* is_shaped_exc(thing, shape)
IsShapedExc ==
    /\ frame.is_shaped_exc = "unset"
    /\ \E r \in is_shaped_exc(frame.thing, frame.shape) :
          frame' = [frame EXCEPT !.is_shaped_exc = r]
    /\ ShapeFrame

\* calculate_shape(thing)
CalculateShape ==
    /\ frame.calculate_shape = Unset
    /\ \E r \in calculate_shape(frame.thing) :
          frame' = [frame EXCEPT !.calculate_shape = r]
    /\ ShapeFrame

\* is_shaped(thing, calculate_shape(thing)), when calculate_shape returned
IsShapedOwn ==
    /\ frame.calculate_shape # Unset
    /\ ~IsErr(frame.calculate_shape)
    /\ frame.is_shaped_own = "unset"
    /\ \E r \in is_shaped(frame.thing, frame.calculate_shape) :
          frame' = [frame EXCEPT !.is_shaped_own = r]
    /\ ShapeFrame

InitShape ==
    /\ InitActors(1, {1})
    /\ server = NoServer
    /\ \E thing \in Things, shape \in Shapes :
          frame = [NoFrame EXCEPT !.thing = thing, !.shape = shape]

NextShape ==
    \/ IsShaped
    \/ IsShapedExc
    \/ CalculateShape
    \/ IsShapedOwn

SpecShape == InitShape /\ [][NextShape]_vars

\* a message and its shape: the Sender casts values to the Receiver, which
\* receives, without waiting, with the shape calculate_shape gives for one
\* of these values as its pattern
RoundMessages == {PyNone, VBool(TRUE), VInt(1), VStr("a"), Dict1("k", VInt(1)),
                  VList(<<VInt(1), VInt(1)>>), VList(<<>>),
                  VTuple(<<VStr("credit"), VInt(1)>>), VBinary(Bytes("a")),
                  VUnicode("a"), VList(<<VStr("a"), VUnicode("a")>>)}
WellShaped == {m \in RoundMessages : \A sh \in calculate_shape(m) : ~IsErr(sh)}

NextRound ==
    \/ \E a \in Actors : Start(a)
    \/ \E m \in RoundMessages : Cast(Sender, Receiver, m)
    \/ \E m \in WellShaped : \E sh \in calculate_shape(m) :
            Receive(Receiver, <<sh>>, "0")
    \/ \E a \in Actors : Return(a, PyNone)
    \/ Except(Sender)

SpecRound == InitRecv /\ [][NextRound]_vars

\* names: two actors rename themselves, to a new name or to an id that is in
\* use, cast their own address inside a message to the Receiver (as
\* test_cast_syntax_sugar does), and end
OwnAddress(a) == Dict1("addr", VAddr(a))

NextRename ==
    \/ \E a \in Actors : Start(a)
    \/ \E a \in Actors, name \in Names : Rename(a, name)
    \/ \E a \in Actors : Cast(a, Receiver, OwnAddress(a))
    \/ \E a \in Actors : Return(a, PyNone)
    \/ \E a \in Actors : Except(a)

SpecRename == InitRecv /\ [][NextRename]_vars

\* the messages and the pattern lists of the wake-ups: those of the timed
\* receives and, with them, the message None and the null-literal pattern
WakeMessages == TimedMessages \cup {PyNone}
WakePatternLists == TimedPatternLists \cup {<<PyNone, TType("int")>>}

\* wake-ups: the Receiver receives with no timeout or a positive one, with
\* and without patterns, while the Sender casts to it, yields and ends; the
\* hub switches to a receiver whose wait event was set, and a running
\* greenlet comes to its end
NextWake ==
    \/ \E a \in Actors : Start(a)
    \/ \E m \in WakeMessages : Cast(Sender, Receiver, m)
    \/ Sleep(Sender)
    \/ SleepWake(Sender)
    \/ \E ps \in WakePatternLists, timeout \in {"None", "pos"} :
          Receive(Receiver, ps, timeout)
    \/ ReceiveWake(Receiver)
    \/ ReceiveTimeout(Receiver)
    \/ \E a \in Actors : Return(a, PyNone)
    \/ Except(Sender)

SpecWake ==
    /\ InitRecv
    /\ [][NextWake]_vars
    /\ WF_vars(ReceiveWake(Receiver))
    /\ WF_vars(Return(Sender, PyNone))
    /\ WF_vars(Except(Sender))

\* links: two actors are spawned by the main greenlet; the first spawns a
\* third with spawn_link, any of them links to that Target with or without
\* trap_exit, receives, and returns or raises
Target == 2

InitLink == InitWith(3, {1, 3})

NextLink ==
    \/ \E a \in Actors : Start(a)
    \/ Spawn(1, TRUE)
    \/ \E a \in Actors, trap_exit \in BOOLEAN : Link(a, Target, trap_exit)
    \/ \E a \in Actors : Receive(a, <<>>, "None")
    \/ \E a \in Actors : ReceiveWake(a)
    \/ \E a \in Actors : Return(a, VInt(a))
    \/ \E a \in Actors : Raise(a, "RuntimeError")
    \/ \E a \in Actors : Except(a)

SpecLink == InitLink /\ [][NextLink]_vars

\* links and waits: as above, without receives, so that a mailbox keeps what
\* was cast to it; any actor waits on the Target
NextWaitLink ==
    \/ \E a \in Actors : Start(a)
    \/ Spawn(1, TRUE)
    \/ \E a \in Actors, trap_exit \in BOOLEAN : Link(a, Target, trap_exit)
    \/ \E a \in Actors \ {Target} : Wait(a, Target)
    \/ \E a \in Actors : WaitResume(a)
    \/ \E a \in Actors : Return(a, VInt(a))
    \/ \E a \in Actors : Raise(a, "RuntimeError")
    \/ \E a \in Actors : Except(a)

SpecWaitLink == InitLink /\ [][NextWaitLink]_vars

\* calls without a timeout to a plain actor: the Client calls the address of
\* the other actor with no timeout; the callee receives the call message and
\* responds, or returns, raises or is killed with the call unanswered; the
\* Client may have linked to the callee, and either may kill the other
NextUntimed ==
    \/ \E a \in Actors : Start(a)
    \/ \E trap_exit \in BOOLEAN : Link(Client, TheServer, trap_exit)
    \/ Call(Client, TheServer, "foo", PyNone, "None")
    \/ Receive(TheServer, <<CALL_PATTERN>>, "None")
    \/ Respond(TheServer, THE_RESULT)
    \/ \E a \in Actors : ReceiveWake(a)
    \/ \E a \in Actors : Kill(a, CHOOSE b \in Actors : b # a)
    \/ \E a \in Actors : Throw(a)
    \/ \E a \in Actors : Return(a, PyNone)
    \/ Raise(TheServer, "RuntimeError")
    \/ \E a \in Actors : Except(a)

SpecUntimed == InitRecv /\ [][NextUntimed]_vars

\* pending Timeouts: the Client receives with a positive timeout, with a
\* pattern that matches nothing, with the empty-list shape, which makes
\* is_shaped raise on a list, or with a set of two types, which matches a
\* list by the type the set iterates first, or calls the other actor with a positive
\* timeout; the other actor casts a list to it, kills it, sleeps, receives
\* and ends; the Client handles what its operation raised and goes on to receive or call
\* without a timeout, to wait or to sleep, where the Timeout it left fires
StalePatternLists == {<<TType("int")>>, <<VList(<<>>)>>,
                      <<VSet(<<TType("int"), TType("str")>>)>>}

NextStale ==
    \/ \E a \in Actors : Start(a)
    \/ \E ps \in StalePatternLists : Receive(Client, ps, "pos")
    \/ Receive(Client, <<TType("str")>>, "None")
    \/ Receive(TheServer, <<>>, "None")
    \/ \E timeout \in {"None", "pos"} : Call(Client, TheServer, "foo", PyNone, timeout)
    \/ Cast(TheServer, Client, VList(<<VInt(1)>>))
    \/ Kill(TheServer, Client)
    \/ Throw(Client)
    \/ Catch(Client)
    \/ Wait(Client, TheServer)
    \/ WaitResume(Client)
    \/ \E a \in Actors : Sleep(a)
    \/ \E a \in Actors : SleepWake(a)
    \/ ReceiveWake(Client)
    \/ ReceiveTimeout(Client)
    \/ CallTimeout(Client)
    \/ \E e \in TimerKinds : StaleTimeout(Client, e)
    \/ \E a \in Actors : Return(a, PyNone)
    \/ \E a \in Actors : Except(a)

SpecStale == InitRecv /\ [][NextStale]_vars

(***************************************************************************)
(* Properties.                                                             *)
(***************************************************************************)
InSeq(x, s) == \E k \in 1..Len(s) : s[k] = x

RECURSIVE Unicoded(_)
\* the value with every str in it as the unicode of the same characters
Unicoded(x) ==
    CASE x.t = "str" -> VUnicode(x.v)
      [] x.t \in {"list", "tuple", "set"} ->
            [t |-> x.t, v |-> [i \in 1..Len(x.v) |-> Unicoded(x.v[i])]]
      [] x.t = "dict" -> VDict([k \in DOMAIN x.v |-> Unicoded(x.v[k])])
      [] OTHER -> x

\* x == y as Python compares the values of this model: a str equals the
\* unicode of the same characters
SameValue(x, y) == Unicoded(x) = Unicoded(y)
Occurrences(x, s) == Cardinality({k \in 1..Len(s) : s[k] = x})

\* a link message of actor c: {address: c, exit: ...} or {address: c, exception: ...}
IsLinkMessage(m, c) ==
    /\ m.t = "dict"
    /\ "address" \in DOMAIN m.v
    /\ m.v["address"] = VAddr(c)
    /\ ("exit" \in DOMAIN m.v) # ("exception" \in DOMAIN m.v)

LinkMessages(mb, c) == Cardinality({k \in 1..Len(mb) : IsLinkMessage(mb[k], c)})

\* C1: when an actor c ends, normally or with an exception, every live actor p
\* that linked to c once with trap_exit gets exactly one link message
\* carrying c's address
C1_ExactlyOneLinkMessage ==
    [][\A c, p \in Actors :
          (/\ p # c
           /\ status[c] \in {"running", "raising"}
           /\ status'[c] = "dead"
           /\ ~Dead(p)
           /\ Occurrences(p, exit_links[c]) = 1
           /\ Occurrences(p, alinks[c]) = 1)
          => LinkMessages(mailbox'[p], c) = LinkMessages(mailbox[p], c) + 1]_vars

\* the actor that called wait_all has its result
WaitAllReturned == /\ gather.pc = "done"
                   /\ status[1] = "running"
                   /\ ret[1].op = "wait"

\* C2: wait_all(t1..tn) returns exactly n records, one for each target
C2_WaitAllReturnsAllRecords ==
    WaitAllReturned =>
        /\ Len(ret[1].v.v) = gather.n
        /\ \A k \in 1..gather.n :
              \E i \in 1..Len(ret[1].v.v) :
                  ret[1].v.v[i].v["address"] = VAddr(gather.address_list[k])

\* C3: in the sequence wait_all returns, the record at position i carries
\* the address of the child spawned for target i
C3_ResultsInInputOrder ==
    WaitAllReturned =>
        \A i \in 1..Len(ret[1].v.v) :
            /\ i <= Len(gather.address_list)
            /\ ret[1].v.v[i].v["address"] = VAddr(gather.address_list[i])

\* wait_all returned two records or more although a later target's child was
\* the first to end
C3_Witness ==
    /\ WaitAllReturned
    /\ Len(ret[1].v.v) >= 2
    /\ gather.order[1] # gather.address_list[1]

\* C4: a caller blocked in wait() on an actor is resumed when that actor
\* ends, and what it is resumed with is the actor's outcome: the value its
\* code returned, or the exception its code raised (Killed when killed)
C4_WaiterObtainsOutcome ==
    \A a \in Actors :
        /\ (status[a] = "waiting" /\ Dead(waiton[a]))
              => exit_event[waiton[a]].st # "unset"
        /\ (ret[a].op = "wait" /\ ret[a].target # 0) =>
              LET t == ret[a].target
              IN  \/ /\ ret[t].op = "return"
                     /\ ret[a].exc = "none"
                     /\ ret[a].v = ret[t].v
                  \/ /\ ret[t].op = "except"
                     /\ ret[a].exc = ret[t].v.v

\* C5: an actor is in the registry under its actor_id if and only if it is
\* live (constructed and not ended)
C5_RegistryIffLive ==
    \A a \in Actors :
        Created(a) => ((all_actors[actor_id[a]] = a) <=> ~Dead(a))

\* C6: an actor that had not ended (it was blocked in receive or in wait,
\* sleeping, or not yet started) when the Killed of a kill() was thrown into
\* it ends through the exceptional path: its exit event holds Killed and it
\* is no longer in the registry
C6_KilledEndsExceptionally ==
    \A a \in killed :
        Dead(a) => /\ exit_event[a] = [st |-> "exception", v |-> VStr("Killed")]
                   /\ all_actors[actor_id[a]] # a

\* some pattern of the list matches the message
Matches(m, patterns) ==
    \E j \in 1..Len(patterns) : is_shaped(m, patterns[j]) = {"True"}

\* the index of the entry nearest the head that some pattern matches, or 0
FirstMatching(mb, patterns) ==
    IF \E i \in 1..Len(mb) : Matches(mb[i], patterns)
    THEN CHOOSE i \in 1..Len(mb) :
            /\ Matches(mb[i], patterns)
            /\ \A k \in 1..(i - 1) : ~Matches(mb[k], patterns)
    ELSE 0

\* the index of the first pattern in argument order that matches the message
FirstPattern(m, patterns) ==
    CHOOSE j \in 1..Len(patterns) :
        /\ is_shaped(m, patterns[j]) = {"True"}
        /\ \A k \in 1..(j - 1) : is_shaped(m, patterns[k]) # {"True"}

\* an actor is blocked in a receive of its code
BlockedInReceive(a) == status[a] = "receiving" /\ rcv[a].kind = "user"

\* the step is a scan of the mailbox by a receive of the code of actor a:
\* the call of receive, or the step in which the hub switches back into the
\* actor once its wait event was set (or its timer fires, which ends the
\* wait without a scan)
ScanStep(a) ==
    \/ status[a] = "running" /\ count'.recvs # count.recvs
    \/ BlockedInReceive(a) /\ wevent[a] = "set" /\ wevent'[a] # "set"

\* the patterns of the receive that scans in the step
ScannedPatterns(a) ==
    IF status[a] = "receiving" THEN rcv[a].patterns
    ELSE IF status'[a] = "receiving" THEN rcv'[a].patterns
    ELSE ret'[a].patterns

\* the index of the entry a receive with these patterns is to return: the
\* head without patterns, else the entry nearest the head that matches; or 0
Due(mb, patterns) ==
    IF patterns = <<>> THEN (IF mb = <<>> THEN 0 ELSE 1)
    ELSE FirstMatching(mb, patterns)

\* the step ends the wait of a's receive by its timer: (None, None) is
\* returned and the mailbox is as it was
TimerEnds(a) ==
    /\ BlockedInReceive(a)
    /\ rcv[a].timer = "armed"
    /\ status'[a] = "running"
    /\ ret'[a].op = "receive"
    /\ ret'[a].i = 0
    /\ ret'[a].pat = PyNone
    /\ mailbox'[a] = mailbox[a]

\* the step returns entry i of the mailbox from a's receive, paired with
\* the first of the patterns that matches it, and removes it
Returns(a, i, patterns) ==
    /\ status'[a] = "running"
    /\ ret'[a].op = "receive"
    /\ ret'[a].exc = "none"
    /\ ret'[a].i = i
    /\ ret'[a].v = mailbox[a][i]
    /\ ret'[a].pat = IF patterns = <<>> THEN AnyPattern
                     ELSE patterns[FirstPattern(mailbox[a][i], patterns)]
    /\ mailbox'[a] = DelAt(mailbox[a], i)

\* C7: every scan of a receive, the one at its call and each one after a
\* wake-up, returns the entry nearest the head of the mailbox that some
\* pattern matches (the head when there are no patterns), paired with the
\* first pattern in argument order that matches it; a scan of a mailbox
\* without such an entry returns no entry and removes none
C7_FirstMatchReturned ==
    [][\A a \in Actors :
          ScanStep(a) =>
              LET i == Due(mailbox[a], ScannedPatterns(a))
              IN  IF i # 0
                  THEN Returns(a, i, ScannedPatterns(a)) \/ TimerEnds(a)
                  ELSE /\ mailbox'[a] = mailbox[a]
                       /\ \/ status'[a] = "receiving"
                          \/ /\ status'[a] = "running"
                             /\ ret'[a].op = "receive"
                             /\ ret'[a].pat = PyNone
                             /\ ret'[a].v = PyNone]_vars

\* C8: receive removes exactly the entry it returns and leaves the others in
\* their order; when it returns (None, None) the mailbox is as it was
C8_RemovesExactlyReturned ==
    \A a \in Actors :
        (ret[a].op = "receive" /\ ret[a].exc = "none") =>
            IF ret[a].pat = PyNone
            THEN ret[a].after = ret[a].before
            ELSE \E i \in 1..Len(ret[a].before) :
                    /\ ret[a].before[i] = ret[a].v
                    /\ ret[a].after = DelAt(ret[a].before, i)

\* the entries of one sender in a mailbox are in the order they were cast
SenderOrder(tags) ==
    \A i, j \in 1..Len(tags) :
        (i < j /\ tags[i].from = tags[j].from) => tags[i].n < tags[j].n

\* the entries the step appends to the mailbox of t
Appended(t) ==
    {mailbox'[t][k] : k \in (Len(mailbox[t]) + 1)..Len(mailbox'[t])}

\* the step is a cast to the Receiver by the code of actor s
CastsToReceiver(s) ==
    /\ status[s] = "running"
    /\ count'.casts # count.casts
    /\ \/ ret'[s].op = "cast"
       \/ status'[s] = "receiving" /\ rcv'[s].kind = "castcall"

\* C9: two messages one actor casts to the same target are in the target's
\* mailbox in the order of the casts, and a receive whose patterns match
\* both returns the earlier one before the later one: each cast to a live
\* target appends to its mailbox the one message given, the entries of one
\* sender are in a mailbox in the order of their casts, and a scan of a
\* mailbox that holds two entries of one sender which the patterns match
\* leaves the later one in the mailbox and takes the earlier one out of it
\* only by returning it
C9_PerSenderFifo ==
    /\ [](\A t \in Actors : Len(mtag[t]) = Len(mailbox[t]) /\ SenderOrder(mtag[t]))
    /\ [][\A s \in Actors :
             (CastsToReceiver(s) /\ ~Dead(Receiver))
             => /\ Len(mtag'[Receiver]) = Len(mtag[Receiver]) + 1
                /\ mtag'[Receiver][Len(mtag'[Receiver])].from = s
                /\ \A m \in Appended(Receiver) :
                      is_shaped(m, CALL_PATTERN) # {"True"}]_vars
    /\ [][\A a \in Actors :
             ScanStep(a) =>
                 \A k, l \in 1..Len(mailbox[a]) :
                     (/\ k < l
                      /\ mtag[a][k].from = mtag[a][l].from
                      /\ \/ ScannedPatterns(a) = <<>>
                         \/ /\ Matches(mailbox[a][k], ScannedPatterns(a))
                            /\ Matches(mailbox[a][l], ScannedPatterns(a)))
                     => /\ InSeq(mtag[a][l], mtag'[a])
                        /\ \/ InSeq(mtag[a][k], mtag'[a])
                           \/ /\ status'[a] = "running"
                              /\ ret'[a].op = "receive"
                              /\ ret'[a].i = k
                              /\ ret'[a].v = mailbox[a][k]]_vars

\* C10: a cast sends one message, the one it was given, and does not suspend
\* its caller: a step in which a running actor sends and does not end leaves
\* it running (or raising), sends once, and sends no call message
C10_CastDoesNotSuspend ==
    [][\A a \in Actors :
          (status[a] = "running" /\ nsent'[a] # nsent[a] /\ status'[a] # "dead")
          => /\ status'[a] \in {"running", "raising"}
             /\ nsent'[a] = nsent[a] + 1
             /\ \A t \in Actors : \A m \in Appended(t) :
                   is_shaped(m, CALL_PATTERN) # {"True"}]_vars

\* C11: a cast on the address of an actor that has ended raises DeadActor in
\* the caller and changes no mailbox: a step in which an actor casts to the
\* ended Receiver leaves every mailbox as it was and the caster raising
\* DeadActor
C11_CastToDeadFails ==
    [][(Dead(Receiver) /\ count.casts' # count.casts)
          => /\ mailbox' = mailbox
             /\ \E a \in Actors : /\ status[a] = "running"
                                  /\ status'[a] = "raising"
                                  /\ ret'[a].op = "cast"
                                  /\ ret'[a].exc = "DeadActor"]_vars

\* an actor is blocked in the receive of a call
InCall(a) == status[a] = "receiving" /\ rcv[a].kind = "call"

\* m is a response that carries the message_id id
Carries(m, id) ==
    /\ m.t = "dict"
    /\ "response" \in DOMAIN m.v
    /\ SameValue(m.v["response"], VStr(id))

\* the index of the entry nearest the head of mb that carries id, or 0
FirstCarrying(mb, id) ==
    IF \E i \in 1..Len(mb) : Carries(mb[i], id)
    THEN CHOOSE i \in 1..Len(mb) :
            /\ Carries(mb[i], id)
            /\ \A k \in 1..(i - 1) : ~Carries(mb[k], id)
    ELSE 0

\* the indices of the entries of the mailbox of a that the step removes
Removed(a) == {k \in 1..Len(mailbox[a]) : ~InSeq(mtag[a][k], mtag'[a])}

\* the call of a ends in this step with what the entry m says
EndsBy(a, m) ==
    /\ ret'[a].op = "call"
    /\ ~InCall(a)'
    /\ CASE "message" \in DOMAIN m.v ->
                /\ status'[a] = "running"
                /\ ret'[a].exc = "none"
                /\ ret'[a].v = m.v["message"]
         [] "exception" \in DOMAIN m.v ->
                /\ status'[a] = "raising"
                /\ ret'[a].exc = "RemoteException"
                /\ ret'[a].v.v["exception"] = m.v["exception"]
         [] "invalid_method" \in DOMAIN m.v ->
                /\ status'[a] = "raising"
                /\ ret'[a].exc = "RemoteAttributeError"
                /\ SameValue(ret'[a].v, m.v["invalid_method"])
         [] OTHER -> FALSE

\* C12: a call ends according to the first entry of the caller's mailbox that
\* carries the call's own message_id, and consumes no other entry: in every
\* step of an actor that begins a call or is blocked in one, the only entry
\* that can leave its mailbox is the entry nearest the head that carries the
\* id of the call, the call then returns the entry's message, or raises
\* RemoteException with its exception or RemoteAttributeError with the
\* method's name, and a call ends in one of these three ways only by
\* removing such an entry
C12_CallEndsByOwnResponse ==
    [][\A a \in Actors :
          (InCall(a) \/ (status[a] = "running" /\ count'.calls # count.calls))
          => LET id == IF InCall(a) THEN rcv[a].id
                       ELSE IF InCall(a)' THEN rcv'[a].id ELSE ret'[a].id
             IN  /\ \A k \in Removed(a) : /\ k = FirstCarrying(mailbox[a], id)
                                          /\ EndsBy(a, mailbox[a][k])
                 /\ (/\ ~InCall(a)'
                     /\ ret'[a].op = "call"
                     /\ ret'[a].exc \in {"none", "RemoteException",
                                         "RemoteAttributeError"})
                    => Removed(a) # {}]_vars

\* a call returned its own response past a response to an earlier call, which
\* stayed in the mailbox
C12_Witness ==
    \E a \in Actors :
        /\ ret[a].op = "call"
        /\ ret[a].exc = "none"
        /\ ret[a].i = 2
        /\ ret[a].after # <<>>
        /\ ~Carries(ret[a].after[1], ret[a].id)
        /\ mailbox[a] = ret[a].after

\* an actor is blocked in a call that was given a timeout
TimedCall(a) == InCall(a) /\ rcv[a].timer = "armed"

\* C13: a call with a timeout does not leave its caller blocked, and when it
\* ends with no response to it in the caller's mailbox it raises Timeout in
\* the caller and does nothing to the callee: the Client that is blocked in a
\* call with a timeout is eventually no longer blocked in it, and the step
\* that ends such a call while no entry of the mailbox carries its message_id
\* leaves the caller raising Timeout and leaves the callee's status, mailbox,
\* pending kill and place in Server.main as they were
C13_TimedCallEnds ==
    /\ TimedCall(Client) ~> ~InCall(Client)
    /\ [][(/\ TimedCall(Client)
           /\ ~InCall(Client)'
           /\ FirstCarrying(mailbox[Client], rcv[Client].id) = 0)
          => /\ status'[Client] = "raising"
             /\ ret'[Client].op = "call"
             /\ ret'[Client].exc = "Timeout"
             /\ ret'[Client].id = rcv[Client].id
             /\ status'[rcv[Client].target] = status[rcv[Client].target]
             /\ mailbox'[rcv[Client].target] = mailbox[rcv[Client].target]
             /\ killreq'[rcv[Client].target] = killreq[rcv[Client].target]
             /\ server' = server]_vars

\* the call raised Timeout while the Server, which took its request, is
\* still in the method
C13_Witness ==
    /\ status[Client] = "raising"
    /\ ret[Client].op = "call"
    /\ ret[Client].exc = "Timeout"
    /\ status[TheServer] = "sleeping"
    /\ server.pc = "method"
    /\ server.message.v["call"] = VUnicode(ret[Client].id)

\* m is a response to a call that a is not, or no longer, waiting in
Stale(a, m) ==
    /\ m.t = "dict"
    /\ "response" \in DOMAIN m.v
    /\ ~(InCall(a) /\ Carries(m, rcv[a].id))

\* the record of the iteration of Server.main that the step completes
Iteration == server'.log[Len(server'.log)]

\* C14: the response to a call that has timed out is appended to the
\* caller's mailbox and leaves it only through a receive of the caller's code
\* whose patterns match it, never through a later call: a step in which the
\* Server responds to a call the Client is no longer waiting in appends the
\* response to the Client's mailbox, and a step that removes from an actor's
\* mailbox a response to a call the actor is not waiting in is a receive of
\* its code, without patterns or with a pattern that matches the response,
\* and returns that response
C14_LateResponseStays ==
    [][/\ (/\ Len(server'.log) > Len(server.log)
           /\ Iteration.sent # <<>>
           /\ ~(InCall(Client) /\ rcv[Client].id = Iteration.call))
          => /\ Len(mailbox'[Client]) = Len(mailbox[Client]) + 1
             /\ SubSeq(mailbox'[Client], 1, Len(mailbox[Client])) = mailbox[Client]
             /\ SameValue(mailbox'[Client][Len(mailbox'[Client])], Iteration.sent[1])
       /\ \A a \in Actors : \A k \in Removed(a) :
             Stale(a, mailbox[a][k])
             => /\ ret'[a].op = "receive"
                /\ ret'[a].v = mailbox[a][k]
                /\ \/ ret'[a].patterns = <<>>
                   \/ Matches(mailbox[a][k], ret'[a].patterns)]_vars

\* the response to the first call, which timed out, stayed in the mailbox
\* while the second call was made and ended, and a receive for responses
\* then returned it
C14_Witness ==
    /\ count.calls = 2
    /\ ret[Client].op = "receive"
    /\ ret[Client].patterns = <<RESPONSE_PATTERN>>
    /\ ret[Client].pat # PyNone
    /\ Carries(ret[Client].v, CallId(1))
    /\ \E k \in 1..Len(server.log) : server.log[k].call = CallId(2)

\* the response Server.main owes for an iteration: by the outcome of getattr
\* and of the method
Owed(h, m) ==
    /\ Carries(m, h.call)
    /\ CASE h.outcome = "None" ->
                /\ DOMAIN m.v = {"response", "invalid_method"}
                /\ SameValue(m.v["invalid_method"], VStr(h.method))
         [] h.outcome = "raise" -> DOMAIN m.v = {"response", "exception"}
         [] OTHER ->
                /\ DOMAIN m.v = {"response", "message"}
                /\ SameValue(m.v["message"], THE_RESULT)

\* C15: for every call message the Server takes it casts exactly one
\* response to the caller, with the call's message_id: invalid_method when
\* the method does not exist, exception when it raised, else the message with
\* its result: every iteration of Server.main that has ended has cast one
\* response, the one owed
C15_OneResponsePerCall ==
    \A k \in 1..Len(server.log) :
        /\ Len(server.log[k].sent) = 1
        /\ Owed(server.log[k], server.log[k].sent[1])

\* C16: server_start runs once, before the Server takes its first message,
\* and server_stop runs exactly once on every way out of the loop of
\* Server.main, a kill included: a Server that is in the loop or past it has
\* run server_start exactly once, server_stop has run once when main has been
\* left and not before, and a Server that has ended after server_start has
\* left main
C16_StartOnceStopOnce ==
    /\ server.starts <= 1
    /\ (server.pc \notin {"none", "init"} \/ server.log # <<>>) => server.starts = 1
    /\ server.stops = IF server.pc = "exit" THEN 1 ELSE 0
    /\ (Dead(TheServer) /\ server.starts = 1) => server.pc = "exit"

\* the Server was killed while it waited for a message: server_stop has run
\* and the actor has ended with Killed
C16_Witness ==
    /\ Dead(TheServer)
    /\ TheServer \in killed
    /\ ret[TheServer].v = VStr("Killed")
    /\ server.starts = 1
    /\ server.stops = 1

\* C17: a spawned actor runs nothing before its parent has reached its next
\* suspension point, so the link of spawn_link is in place before the child
\* starts and the child's end is always notified to the parent: a step that
\* constructs an actor leaves it unstarted, a step that starts one is taken
\* while no actor is running, and a step in which an actor ends whose only
\* link is the live parent that spawn_link registered appends a link message
\* to the parent's mailbox
C17_ChildEndNotified ==
    [][\A c \in Actors :
          /\ (status[c] = "none" /\ status'[c] # "none") => status'[c] = "unstarted"
          /\ (status[c] = "unstarted" /\ status'[c] = "running") => ~Busy
          /\ \A p \in Actors \ {c} :
                (/\ ~Dead(c)
                 /\ status'[c] = "dead"
                 /\ ~Dead(p)
                 /\ alinks[c] = <<p>>
                 /\ exit_links[c] = <<p>>)
                => LinkMessages(mailbox'[p], c) = LinkMessages(mailbox[p], c) + 1]_vars

\* the number of live actors among the first k links
LiveBefore(links, k) == Cardinality({i \in 1..k : ~Dead(links[i])})

\* the entries of the mailbox of p that the step appends, with their records
NewEntries(p) ==
    {[m |-> mailbox'[p][j], tag |-> mtag'[p][j]] :
        j \in (Len(mailbox[p]) + 1)..Len(mailbox'[p])}

\* the step casts message to every live actor of links, once for each time it
\* is in links, in the order of links, as the casts number first + 1 onwards
\* of actor c
CastToEach(c, links, message, first) ==
    /\ \A k \in 1..Len(links) :
          ~Dead(links[k])
          => \E e \in NewEntries(links[k]) :
                /\ SameValue(e.m, message)
                /\ e.tag = [from |-> c, n |-> first + LiveBefore(links, k)]
    /\ \A p \in Actors :
          ~Dead(p)
          => Cardinality({e \in NewEntries(p) : SameValue(e.m, message)})
                = Occurrences(p, links)

\* C18: an actor that completes normally with result R sends every actor in
\* its exit_links exactly one {address: self, exit: R} and no {address,
\* exception}, in the order in which the links were registered: the step in
\* which a running actor ends casts the exit message to each live actor of
\* exit_links in that order and appends no exception message of the actor to
\* any mailbox
C18_ExitMessageToEachLink ==
    [][\A c \in Actors :
          (status[c] = "running" /\ status'[c] = "dead")
          => /\ CastToEach(c, exit_links[c], ExitMessage(c, ret'[c].v), nsent[c])
             /\ \A p \in Actors : \A e \in NewEntries(p) :
                   ~("exception" \in DOMAIN e.m.v)]_vars

\* C19: an actor that completes with an exception sends every actor in its
\* alinks exactly one {address: self, exception: detail}, in the order in
\* which the links were registered, before its exit event is set with the
\* exception: the step in which a raising actor ends casts the exception
\* message to each live actor of alinks in that order and sets the exit
\* event to the exception
C19_ExceptionMessageToEachLink ==
    [][\A c \in Actors :
          (status[c] = "raising" /\ status'[c] = "dead")
          => /\ CastToEach(c, alinks[c],
                           ExceptionMessage(c, format_exc(ret[c].exc)), nsent[c])
             /\ exit_event'[c] = [st |-> "exception", v |-> VStr(ret[c].exc)]]_vars

\* C20: an actor linked to a target without trap_exit gets one {address,
\* exception} when the target ends with an exception and no link message when
\* it completes normally: the step in which an actor c ends appends to the
\* mailbox of a live actor that is once in alinks[c] and not in exit_links[c]
\* one exception message of c and nothing else when c was raising, and
\* nothing when c was running
C20_LinkWithoutTrapExit ==
    [][\A c \in Actors : \A p \in Actors \ {c} :
          (/\ status[c] \in {"running", "raising"}
           /\ status'[c] = "dead"
           /\ ~Dead(p)
           /\ Occurrences(p, alinks[c]) = 1
           /\ ~InSeq(p, exit_links[c]))
          => IF status[c] = "raising"
             THEN {Unicoded(e.m) : e \in NewEntries(p)}
                    = {Unicoded(ExceptionMessage(c, format_exc(ret[c].exc)))}
             ELSE NewEntries(p) = {}]_vars


\* the wait of a returned or raised what the exit slot e holds
Obtained(a, e) ==
    IF e.st = "value"
    THEN status'[a] = "running" /\ ret'[a].exc = "none" /\ ret'[a].v = e.v
    ELSE status'[a] = "raising" /\ ret'[a].exc = e.v.v

\* C21: a wait() called on the address of an actor that has already ended,
\* with its outcome stored in its exit slot, returns or raises that stored
\* outcome, as it does for the callers that were blocked when the actor ended
C21_LateWaitSameOutcome ==
    [][\A a, t \in Actors :
          (/\ status[a] = "running"
           /\ Dead(t)
           /\ exit_event[t].st # "unset"
           /\ ret'[a] # ret[a]
           /\ ret'[a].op = "wait"
           /\ ret'[a].target = t)
          => Obtained(a, exit_event[t])]_vars


\* C22: Address.link() on the address of an actor that has ended raises
\* DeadActor in the caller and registers nothing: the step changes no link
\* list and no mailbox, and from then on the link lists of the ended actor
\* stay as they were and no mailbox gains a link message about it
C22_LinkToDeadRejected ==
    [][Dead(Target)
          => /\ alinks'[Target] = alinks[Target]
             /\ exit_links'[Target] = exit_links[Target]
             /\ \A p \in Actors : \A e \in NewEntries(p) : ~IsLinkMessage(e.m, Target)
             /\ count'.ops # count.ops
                => /\ alinks' = alinks
                   /\ exit_links' = exit_links
                   /\ mailbox' = mailbox
                   /\ \E a \in Actors : /\ status[a] = "running"
                                        /\ status'[a] = "raising"
                                        /\ ret'[a].op = "link"
                                        /\ ret'[a].exc = "DeadActor"]_vars

\* an actor called link() on the ended Target, whose links had held another
\* actor, and got DeadActor
C22_Witness ==
    /\ Dead(Target)
    /\ alinks[Target] # <<>>
    /\ \E a \in Actors : /\ ret[a].op = "link"
                         /\ ret[a].exc = "DeadActor"
                         /\ ~InSeq(a, alinks[Target])


\* an actor is blocked in a receive that was called with a positive timeout
TimedReceive(a) ==
    status[a] = "receiving" /\ rcv[a].kind = "user" /\ rcv[a].timeout = "pos"

\* C23: a receive with a positive timeout does not leave the actor blocked:
\* the Receiver that is blocked in such a receive is eventually no longer
\* blocked in it, also when entries that match none of its patterns arrive
\* and wake it; and the step that ends the receive while no entry of the
\* mailbox matches returns (None, None) and leaves the mailbox as it was
C23_TimedReceiveEnds ==
    /\ TimedReceive(Receiver) ~> ~TimedReceive(Receiver)
    /\ [][(/\ TimedReceive(Receiver)
           /\ ~TimedReceive(Receiver)'
           /\ \A sc \in Scan(mailbox[Receiver], rcv[Receiver].patterns) : sc.i = 0)
          => /\ status'[Receiver] = "running"
             /\ ret'[Receiver].op = "receive"
             /\ ret'[Receiver].exc = "none"
             /\ ret'[Receiver].pat = PyNone
             /\ ret'[Receiver].v = PyNone
             /\ mailbox'[Receiver] = mailbox[Receiver]]_vars

\* the receive returned (None, None) after it had waited, with an entry that
\* matches none of its patterns, cast during the wait, left in the mailbox
C23_Witness ==
    /\ ret[Receiver].op = "receive"
    /\ ret[Receiver].pat = PyNone
    /\ ret[Receiver].timeout = "pos"
    /\ ret[Receiver].patterns = <<TType("int")>>
    /\ ret[Receiver].blocked
    /\ mailbox[Receiver] = <<VUnicode("a")>>
    /\ ret[Receiver].before = <<VUnicode("a")>>
    /\ wevent[Receiver] = "None"
    /\ status[Sender] = "dead"


\* the timeout of the receive that the Receiver's code calls in this step
CalledTimeout ==
    IF status'[Receiver] = "receiving" THEN rcv'[Receiver].timeout
    ELSE ret'[Receiver].timeout

\* C24: receive with timeout = 0 does not suspend the actor: the step in
\* which the Receiver's code calls it leaves the Receiver running, with the
\* entry nearest the head of the mailbox that a pattern matches (the head,
\* without patterns) returned and removed, and with (None, None) returned
\* and the mailbox as it was when no entry matches or the mailbox is empty
C24_NoWaitReceive ==
    [][(count'.recvs # count.recvs /\ CalledTimeout = "0")
          => LET r == ret'[Receiver]
                 mb == mailbox[Receiver]
                 i == IF r.patterns = <<>> THEN (IF mb = <<>> THEN 0 ELSE 1)
                      ELSE FirstMatching(mb, r.patterns)
             IN  /\ status'[Receiver] = "running"
                 /\ r.op = "receive"
                 /\ r.exc = "none"
                 /\ ~r.blocked
                 /\ IF i = 0
                    THEN /\ r.pat = PyNone
                         /\ r.v = PyNone
                         /\ mailbox'[Receiver] = mb
                    ELSE /\ r.pat = IF r.patterns = <<>> THEN AnyPattern
                                     ELSE r.patterns[FirstPattern(mb[i], r.patterns)]
                         /\ r.v = mb[i]
                         /\ mailbox'[Receiver] = DelAt(mb, i)]_vars

\* a receive with patterns and timeout = 0 returned (None, None) from a
\* mailbox that held entries, none of which matches
C24_Witness ==
    /\ status[Receiver] = "running"
    /\ ret[Receiver].op = "receive"
    /\ ret[Receiver].timeout = "0"
    /\ ret[Receiver].patterns # <<>>
    /\ ret[Receiver].pat = PyNone
    /\ ret[Receiver].before # <<>>
    /\ mailbox[Receiver] = ret[Receiver].before


\* C28: is_shaped and is_shaped_exc agree and raise nothing but a
\* ShapeMismatch: on every value and shape, is_shaped returns True or False,
\* is_shaped_exc returns or raises one of the ShapeMismatch kinds, and
\* is_shaped returns True exactly when is_shaped_exc returns
C28_MatcherTotal ==
    (frame.is_shaped # "unset" /\ frame.is_shaped_exc # "unset")
    => /\ frame.is_shaped \in {"True", "False"}
       /\ frame.is_shaped_exc \in {"ok"} \cup ShapeMismatchKinds
       /\ (frame.is_shaped = "True") <=> (frame.is_shaped_exc = "ok")


\* C29: a value matches its own shape: whenever calculate_shape returns a
\* shape for a value, is_shaped of the value and that shape is True
C29_MatchesOwnShape ==
    frame.is_shaped_own # "unset" => frame.is_shaped_own = "True"


\* C25: a message is received by its own shape: when the Receiver's mailbox
\* holds just the entry a cast of m put there, and calculate_shape(m) is
\* defined, receive(calculate_shape(m)) returns that entry, which is m as
\* the codec delivers it, and the mailbox is one entry shorter
C25_ReceivedByOwnShape ==
    [][\A m \in WellShaped : \A d \in Transport(m), sh \in calculate_shape(m) :
          (/\ count'.recvs # count.recvs
           /\ mailbox[Receiver] = <<d>>
           /\ ret'[Receiver].patterns = <<sh>>)
          => /\ ret'[Receiver].exc = "none"
             /\ ret'[Receiver].v = d
             /\ Len(mailbox'[Receiver]) = Len(mailbox[Receiver]) - 1]_vars


\* Address.lookup(name) resolves to the actor a
Resolves(reg, name, a) == reg[name] = a

\* C26: rename re-keys only the entry of the actor that renames itself: in
\* the step in which a registered actor renames itself, its new id resolves
\* to it, its old id (when it differs) resolves to no actor, and every other
\* actor that is not dead and was resolvable under its id keeps its id and
\* is still resolvable under it
C26_RenameRekeysOwnEntry ==
    [][\A a \in Actors :
          (/\ status[a] = "running"
           /\ count'.ops # count.ops
           /\ Resolves(all_actors, actor_id[a], a))
          => /\ Resolves(all_actors', actor_id'[a], a)
             /\ actor_id'[a] # actor_id[a] => Resolves(all_actors', actor_id[a], 0)
             /\ \A b \in Actors \ {a} :
                   (Created(b) /\ ~Dead(b) /\ Resolves(all_actors, actor_id[b], b))
                   => /\ actor_id'[b] = actor_id[b]
                      /\ Resolves(all_actors', actor_id[b], b)]_vars

\* C27: an Address inside a message comes out of the cast as the Address of
\* the same actor: the step in which a live actor casts a message holding
\* its own address to the live Receiver appends that message, with the
\* address of the caster, to the Receiver's mailbox, also after a rename
C27_AddressRoundTrip ==
    [][\A a \in Actors :
          (/\ status[a] = "running"
           /\ ~Dead(Receiver)
           /\ count'.casts # count.casts)
          => mailbox'[Receiver] = Append(mailbox[Receiver], OwnAddress(a))]_vars


\* the run closure of the actor has finished, by returning or by raising, and
\* _run has ended
ClosureFinished(a) == Dead(a) /\ ret[a].op \in {"return", "except"}

\* C30: the exit slot of an actor whose run closure finished is completed,
\* whatever the state of the actors linked to it: once _run has ended after
\* the closure returned or raised, the exit event holds the value or the
\* exception, so that a wait() on it does not block for ever
C30_ExitSlotCompleted ==
    \A a \in Actors : ClosureFinished(a) => exit_event[a].st # "unset"


\* the link messages actor c owes to the actor p when it has ended with the
\* exit event e: the exit message to a member of exit_links, and after an
\* exception the exception message to a member of alinks
OwedTo(c, p, e) ==
    (IF InSeq(p, exit_links[c])
     THEN {ExitMessage(c, IF e.st = "value" THEN e.v ELSE PyNone)} ELSE {})
    \cup
    (IF e.st = "exception" /\ InSeq(p, alinks[c])
     THEN {ExceptionMessage(c, format_exc(e.v.v))} ELSE {})

\* C31: when a caller returns from wait() on an actor, with its result or
\* with its exception, the link messages the actor owes are in the mailboxes
\* of the linked actors: in the step that resumes a waiting actor, every
\* actor that is not dead has in its mailbox each message the actor waited
\* on owes to it
C31_LinkMessagesBeforeWaitReturns ==
    [][\A a \in Actors :
          (status[a] = "waiting" /\ status'[a] # "waiting")
          => \A p \in Actors :
                ~Dead(p) => \A m \in OwedTo(waiton[a], p, exit_event[waiton[a]]) :
                               \E k \in 1..Len(mailbox[p]) :
                                   SameValue(mailbox[p][k], m)]_vars


\* the mailbox of a holds an entry its receive would return
HasMatch(a) == \E sc \in Scan(mailbox[a], rcv[a].patterns) : sc.i # 0

\* C32: no wake-up is lost: an actor that is blocked in receive and whose
\* wait event is not set has no entry in its mailbox that its receive would
\* return; an actor that is blocked in receive with such an entry in its
\* mailbox is eventually no longer blocked; and the step that ends its
\* receive returns the entry nearest the head that matches, unless the
\* timer of the receive fired, which returns (None, None) and leaves the
\* mailbox as it was
C32_NoLostWakeup ==
    /\ []((BlockedInReceive(Receiver) /\ wevent[Receiver] # "set")
            => ~HasMatch(Receiver))
    /\ (BlockedInReceive(Receiver) /\ HasMatch(Receiver))
          ~> ~BlockedInReceive(Receiver)
    /\ [][(/\ BlockedInReceive(Receiver)
           /\ HasMatch(Receiver)
           /\ ~BlockedInReceive(Receiver)')
          => \/ /\ status'[Receiver] = "running"
                /\ ret'[Receiver].op = "receive"
                /\ \E sc \in Scan(mailbox[Receiver], rcv[Receiver].patterns) :
                      ret'[Receiver].i = sc.i
                /\ ret'[Receiver].v = mailbox[Receiver][ret'[Receiver].i]
                /\ mailbox'[Receiver] = DelAt(mailbox[Receiver], ret'[Receiver].i)
             \/ /\ rcv[Receiver].timer = "armed"
                /\ status'[Receiver] = "running"
                /\ ret'[Receiver].op = "receive"
                /\ ret'[Receiver].i = 0
                /\ ret'[Receiver].pat = PyNone
                /\ mailbox'[Receiver] = mailbox[Receiver]]_vars

\* the step is a cast made by the code of actor a
Casts(a) == status[a] = "running" /\ count'.casts # count.casts

\* C33: a message cast to an actor that was spawned and has not started is
\* not lost and does not fail: the cast appends one entry to the mailbox of
\* the unstarted Receiver and returns to the caster; while the Receiver has
\* not started its mailbox loses nothing; and the first receive of its code
\* returns the entry nearest the head that matches, when there is one
C33_CastBeforeStart ==
    [][/\ status[Receiver] = "unstarted"
          => /\ \A k \in 1..Len(mailbox[Receiver]) :
                   /\ k <= Len(mailbox'[Receiver])
                   /\ mailbox'[Receiver][k] = mailbox[Receiver][k]
             /\ \A a \in Actors :
                   Casts(a)
                   => /\ Len(mailbox'[Receiver]) = Len(mailbox[Receiver]) + 1
                      /\ mtag'[Receiver][Len(mailbox'[Receiver])].from = a
                      /\ status'[a] = "running"
                      /\ ret'[a].op = "cast"
                      /\ ret'[a].exc = "none"
       /\ (/\ count.recvs = 0
           /\ count'.recvs = 1
           /\ \E sc \in Scan(mailbox[Receiver], ret'[Receiver].patterns) : sc.i # 0
           /\ status'[Receiver] # "receiving")
          => /\ status'[Receiver] = "running"
             /\ \E sc \in Scan(mailbox[Receiver], ret'[Receiver].patterns) :
                   ret'[Receiver].i = sc.i
             /\ ret'[Receiver].v = mailbox[Receiver][ret'[Receiver].i]]_vars


\* the actor whose call the Server has finished handling in this step
Caller == server'.message.v["address"].v

\* C34: handling a call whose caller has ended does not end the Server: the
\* step in which the Server finishes an iteration of its loop for a call of
\* an actor that is dead leaves the Server running, in the loop, so that it
\* takes the calls that follow
C34_ServerSurvivesDeadCaller ==
    [][(Len(server'.log) > Len(server.log) /\ Dead(Caller))
          => /\ status'[TheServer] = "running"
             /\ server'.pc = "receive"]_vars


\* Killed has been raised in the Server at the point where its method was
\* suspended
KilledInMethod ==
    /\ status[TheServer] = "raising"
    /\ ret[TheServer].exc = "Killed"
    /\ server.pc = "method"

\* C35: a kill delivered to a Server while one of its methods is suspended
\* ends the Server with Killed: the step the Server takes with the Killed
\* raised in the method runs server_stop and ends the actor with Killed as
\* its exit, and records no handled call (no response is cast for it)
C35_KillInMethodEndsServer ==
    [][(KilledInMethod /\ server' # server)
          => /\ Dead(TheServer)'
             /\ server'.stops = 1
             /\ server'.pc = "exit"
             /\ exit_event'[TheServer] = [st |-> "exception", v |-> VStr("Killed")]
             /\ server'.log = server.log]_vars


\* actor a is blocked in a call that was given no timeout
UntimedCall(a) == InCall(a) /\ rcv[a].timer = "none"

\* actor a is blocked in a call with no timeout, the callee has ended and no
\* entry of a's mailbox carries the message_id of the call
Orphaned(a) ==
    /\ UntimedCall(a)
    /\ Dead(rcv[a].target)
    /\ FirstCarrying(mailbox[a], rcv[a].id) = 0

\* the Killed of a kill() is raised in actor a in this step
KilledNow(a) ==
    /\ a \in killed'
    /\ status'[a] = "raising"
    /\ ret'[a].exc = "Killed"

\* C36: a call made without a timeout ends only by a response that carries
\* its message_id, or by a kill of the caller: a step that ends such a call
\* either removes from the caller's mailbox an entry that carries the id and
\* ends the call by what the entry says, or raises Killed in the caller; and
\* a caller that is blocked in such a call after the callee has ended
\* (returned, raised or was killed), with no response to the call in its
\* mailbox, is in the same situation after every step that does not raise
\* Killed in it, whatever else (a link message of the callee) arrives
C36_UntimedCallOnlyByResponse ==
    [][\A a \in Actors :
          /\ (UntimedCall(a) /\ ~InCall(a)')
             => \/ KilledNow(a)
                \/ \E k \in Removed(a) : /\ Carries(mailbox[a][k], rcv[a].id)
                                         /\ EndsBy(a, mailbox[a][k])
          /\ Orphaned(a) => (Orphaned(a)' \/ KilledNow(a))]_vars

\* the Client is blocked in a call with no timeout whose request is still in
\* the mailbox of the callee, which has ended; the callee's link message has
\* arrived and woken the Client, which found no response and waits again
C36_Witness ==
    /\ Orphaned(Client)
    /\ rcv[Client].blocked
    /\ mailbox[TheServer] # <<>>
    /\ mailbox[Client] # <<>>
    /\ wevent[Client] = "clear"

====
